---------------------------- MODULE Spec2Model ----------------------------
(***************************************************************************)
(* The event store of BabyWhyCry (src/src/database.py, src/src/models.py): *)
(* babies, feeding / sleep / crying sessions and diaper changes, with the  *)
(* start, end, log, delete and recent-events operations.                   *)
(*                                                                         *)
(* Time is the reading of get_sgt_now() in ticks.  The columns are         *)
(* DateTime columns, so a stored time is that reading as written.          *)
(* Primary keys are INTEGER PRIMARY KEY columns of the default SQLite      *)
(* backend: a new row gets the largest id of its table plus one.           *)
(* Every front-end handler opens its own database session (bot.py get_db), *)
(* so a failed commit leaves nothing behind for the next call.  sessions   *)
(* holds, for each of two concurrent callers of an end call, the row its   *)
(* session has loaded and not yet committed.                               *)
(* The columns notes and Crying.reason are never written and are left out, *)
(* and so is Baby.name, which no operation reads.                          *)
(* user_data is context.user_data of the one chat of the front end         *)
(* (src/src/bot.py), conversation the state its ConversationHandler keeps  *)
(* for that chat together with the feeding whose end made it ask for an    *)
(* amount; openai is the key of the classifier (src/src/nlp_handler.py)    *)
(* and the requests made of it.                                            *)
(* A call is an operator of the state it is made in: what it returns or     *)
(* raises and the store it leaves; its action commits that store.          *)
(***************************************************************************)
EXTENDS Integers, Sequences, FiniteSets, TLC

VARIABLES babies, feedings, sleeps, diapers, cryings, now, sessions,
          user_data, conversation, openai

vars == <<babies, feedings, sleeps, diapers, cryings, now, sessions,
          user_data, conversation, openai>>

----------------------------------------------------------------------------
(* Bounds of the model *)

MaxRows == 2       \* rows over the four event tables together
MaxTime == 1       \* the clock runs 0..MaxTime
TickSeconds == 200 \* seconds in one tick
DayTicks == 86400 \div TickSeconds   \* ticks in one day

----------------------------------------------------------------------------
(* Values *)

None == << >>
Some(v) == <<v>>
IsNone(x) == x = << >>
Val(x) == x[1]
Opt(S) == {None} \cup {Some(v) : v \in S}

FeedingType == {"BREAST", "BOTTLE", "SOLID"}
DiaperType == {"WET", "DIRTY", "BOTH"}
CryingReason == {"HUNGRY", "DIAPER", "ATTENTION", "UNKNOWN"}

(* The arguments the callers of the model pass *)
BabyIds == {1, 2}
RowIds == 1..MaxRows
FeedingTypes == {"BOTTLE"}
DiaperTypes == {"WET"}
Amounts == {0}
Reasons == {"HUNGRY"}
Limits == {1, 2}
Days == {0, 1}

Max(S) == CHOOSE x \in S : \A y \in S : y <= x

(* the concurrent callers, each with its own SessionLocal(); none has a
   call in flight *)
Callers == {1, 2}
NoSessions == [c \in Callers |-> None]

(* the front end before its first update: context.user_data is empty and the
   ConversationHandler has no state; the classifier has no key and has not
   been called *)
NoUserData == << >>
NoConversation == [state |-> "END", ended |-> None]
NoOpenai == [api_key |-> FALSE, calls |-> << >>]

get_sgt_now == now

timedelta(days) == days * DayTicks

(* Baby.id, Feeding.id, ...: the next INTEGER PRIMARY KEY of a table *)
NextId(ids) == IF ids = {} THEN 1 ELSE Max(ids) + 1

TotalRows == Cardinality(DOMAIN feedings) + Cardinality(DOMAIN sleeps)
             + Cardinality(DOMAIN diapers) + Cardinality(DOMAIN cryings)

(* PRAGMA foreign_keys left off *)
ForeignKeyOff(b) == TRUE

(* baby_id = Column(Integer, ForeignKey('babies.id'), nullable=False), with
   PRAGMA foreign_keys=ON: the commit of a row whose baby is missing fails *)
ForeignKeyOk(b) == b \in babies

(* a mapped object: the row and its primary key *)
Obj(id, row) == [id |-> id, row |-> row]

(* the store in a session *)
db == [babies |-> babies, feedings |-> feedings, sleeps |-> sleeps,
       diapers |-> diapers, cryings |-> cryings]

(* how a call ends: it returns val and leaves the store d, or it raises err
   and the session, with what it added, is dropped *)
Return(v, d) == [err |-> "", val |-> v, db |-> d]
Raise(e) == [err |-> e, val |-> None, db |-> db]

(* db.add(row); db.commit() *)
Insert(t, id, row) == [i \in DOMAIN t \cup {id} |-> IF i = id THEN row ELSE t[i]]

(* a relationship without cascade: the rows stay *)
NoCascade(t, b) == t

(* cascade="all, delete-orphan": the rows of baby b go with it *)
Cascade(t, b) == [i \in {j \in DOMAIN t : t[j].baby_id # b} |-> t[i]]

----------------------------------------------------------------------------
(* Rows *)

NewFeeding(b, ft, t) ==
    [baby_id |-> b, type |-> ft, start_time |-> t, end_time |-> None, amount |-> None]

(* a sleep created with its end_time filled in *)
NewSleepClosed(b, t) == [baby_id |-> b, start_time |-> t, end_time |-> Some(t)]

NewSleep(b, t) == [baby_id |-> b, start_time |-> t, end_time |-> None]

NewDiaper(b, dt, t) == [baby_id |-> b, type |-> dt, time |-> t]

NewCrying(b, t) ==
    [baby_id |-> b, start_time |-> t, end_time |-> None, predicted_reason |-> None,
     prediction_confidence |-> None, actual_reason |-> None]

(* end_feeding without its "and not feeding.end_time" *)
EndFeedingRowUnguarded(f, amount, t) ==
    [f EXCEPT !.end_time = Some(t),
              !.amount = IF ~IsNone(amount) THEN amount ELSE @]

(* end_feeding with "if amount:" for "if amount is not None:" *)
EndFeedingRowTruthy(f, amount, t) ==
    IF IsNone(f.end_time)
    THEN [f EXCEPT !.end_time = Some(t),
                   !.amount = IF ~IsNone(amount) /\ Val(amount) # 0 THEN amount ELSE @]
    ELSE f

EndFeedingRow(f, amount, t) ==
    IF IsNone(f.end_time)
    THEN [f EXCEPT !.end_time = Some(t),
                   !.amount = IF ~IsNone(amount) THEN amount ELSE @]
    ELSE f

(* end_sleep without its "and not sleep.end_time" *)
EndSleepRowUnguarded(s, t) == [s EXCEPT !.end_time = Some(t)]

EndSleepRow(s, t) ==
    IF IsNone(s.end_time) THEN [s EXCEPT !.end_time = Some(t)] ELSE s

(* end_crying reading a clock that is behind the one start_crying read *)
EndCryingRowBehind(c, actual_reason, t) ==
    IF IsNone(c.end_time)
    THEN [c EXCEPT !.end_time = Some(t - 1),
                   !.actual_reason = IF ~IsNone(actual_reason) THEN actual_reason ELSE @]
    ELSE c

(* end_crying recording the reason on an episode that has ended *)
EndCryingRowReasonLate(c, actual_reason, t) ==
    IF IsNone(c.end_time)
    THEN [c EXCEPT !.end_time = Some(t),
                   !.actual_reason = IF ~IsNone(actual_reason) THEN actual_reason ELSE @]
    ELSE [c EXCEPT !.actual_reason = IF ~IsNone(actual_reason) THEN actual_reason ELSE @]

EndCryingRow(c, actual_reason, t) ==
    IF IsNone(c.end_time)
    THEN [c EXCEPT !.end_time = Some(t),
                   !.actual_reason = IF ~IsNone(actual_reason) THEN actual_reason ELSE @]
    ELSE c

----------------------------------------------------------------------------
(* The calls: what a call made in this state returns or raises, and the
   store it leaves *)

(* the names given to create_baby: the empty string and a name *)
BabyNames == {<< >>, <<"M", "i", "a">>}

CreateBaby(name) ==
    LET id == NextId(babies)
    IN  Return(Some([id |-> id, name |-> name]), [db EXCEPT !.babies = @ \cup {id}])

DeleteBaby(b) ==
    IF b \in babies
    THEN Return(TRUE, [babies |-> babies \ {b},
                       feedings |-> Cascade(feedings, b),
                       sleeps |-> Cascade(sleeps, b),
                       diapers |-> Cascade(diapers, b),
                       cryings |-> Cascade(cryings, b)])
    ELSE Return(FALSE, db)

StartFeeding(b, ft) ==
    LET id == NextId(DOMAIN feedings)
        feeding == NewFeeding(b, ft, get_sgt_now)
    IN  IF ForeignKeyOk(b)
        THEN Return(Some(Obj(id, feeding)), [db EXCEPT !.feedings = Insert(@, id, feeding)])
        ELSE Raise("IntegrityError")

EndFeeding(id, amount) ==
    IF id \in DOMAIN feedings
    THEN LET feeding == EndFeedingRow(feedings[id], amount, get_sgt_now)
         IN  Return(Some(Obj(id, feeding)), [db EXCEPT !.feedings[id] = feeding])
    ELSE Return(None, db)

StartSleep(b) ==
    LET id == NextId(DOMAIN sleeps)
        sleep == NewSleep(b, get_sgt_now)
    IN  IF ForeignKeyOk(b)
        THEN Return(Some(Obj(id, sleep)), [db EXCEPT !.sleeps = Insert(@, id, sleep)])
        ELSE Raise("IntegrityError")

EndSleep(id) ==
    IF id \in DOMAIN sleeps
    THEN LET sleep == EndSleepRow(sleeps[id], get_sgt_now)
         IN  Return(Some(Obj(id, sleep)), [db EXCEPT !.sleeps[id] = sleep])
    ELSE Return(None, db)

LogDiaperChange(b, dt) ==
    LET id == NextId(DOMAIN diapers)
        diaper == NewDiaper(b, dt, get_sgt_now)
    IN  IF ForeignKeyOk(b)
        THEN Return(Some(Obj(id, diaper)), [db EXCEPT !.diapers = Insert(@, id, diaper)])
        ELSE Raise("IntegrityError")

StartCrying(b) ==
    LET id == NextId(DOMAIN cryings)
        crying == NewCrying(b, get_sgt_now)
    IN  IF ForeignKeyOk(b)
        THEN Return(Some(Obj(id, crying)), [db EXCEPT !.cryings = Insert(@, id, crying)])
        ELSE Raise("IntegrityError")

EndCrying(id, actual_reason) ==
    IF id \in DOMAIN cryings
    THEN LET crying == EndCryingRow(cryings[id], actual_reason, get_sgt_now)
         IN  Return(Some(Obj(id, crying)), [db EXCEPT !.cryings[id] = crying])
    ELSE Return(None, db)

----------------------------------------------------------------------------
(* get_recent_events *)

Min(a, b) == IF a <= b THEN a ELSE b

(* .order_by(T.start_time.desc()): rows of equal time come in any order *)
RECURSIVE OrderByDesc(_)
OrderByDesc(S) ==
    IF S = {} THEN {<< >>}
    ELSE UNION {{<<e>> \o q : q \in OrderByDesc(S \ {e})} :
                   e \in {x \in S : \A y \in S : y.time <= x.time}}

(* return events, without the [:limit] *)
NoLimit(q, limit) == q

(* events[:limit] *)
Limit(q, limit) == SubSeq(q, 1, Min(limit, Len(q)))

Event(type, time, id, row) == [type |-> type, time |-> time, data |-> Obj(id, row)]

FeedingEvents(b, since) ==
    {Event("feeding", feedings[i].start_time, i, feedings[i]) :
        i \in {j \in DOMAIN feedings :
                 feedings[j].baby_id = b /\ feedings[j].start_time >= since}}

SleepEvents(b, since) ==
    {Event("sleep", sleeps[i].start_time, i, sleeps[i]) :
        i \in {j \in DOMAIN sleeps :
                 sleeps[j].baby_id = b /\ sleeps[j].start_time >= since}}

DiaperEvents(b, since) ==
    {Event("diaper", diapers[i].time, i, diapers[i]) :
        i \in {j \in DOMAIN diapers :
                 diapers[j].baby_id = b /\ diapers[j].time >= since}}

CryingEvents(b, since) ==
    {Event("crying", cryings[i].start_time, i, cryings[i]) :
        i \in {j \in DOMAIN cryings :
                 cryings[j].baby_id = b /\ cryings[j].start_time >= since}}

(* a query that keeps one row less than the limit *)
QueryShort(S, limit) == {SubSeq(q, 1, Min(limit - 1, Len(q))) : q \in OrderByDesc(S)}

(* one query: filter, order_by desc, limit *)
Query(S, limit) == {SubSeq(q, 1, Min(limit, Len(q))) : q \in OrderByDesc(S)}

(* events.sort(key=lambda x: x["time"], reverse=True): stable, latest first *)
InsertReverse(sorted, e) ==
    LET k == Cardinality({i \in 1..Len(sorted) : sorted[i].time >= e.time})
    IN  SubSeq(sorted, 1, k) \o <<e>> \o SubSeq(sorted, k + 1, Len(sorted))

RECURSIVE SortReverse(_)
SortReverse(events) ==
    IF events = << >> THEN << >>
    ELSE InsertReverse(SortReverse(SubSeq(events, 1, Len(events) - 1)), events[Len(events)])

(* the lists get_recent_events(db, b, limit, days) can return *)
RecentEvents(b, limit, days) ==
    LET since == get_sgt_now - timedelta(days)
    IN  {Limit(SortReverse(q[1] \o q[2] \o q[3] \o q[4]), limit) :
            q \in Query(FeedingEvents(b, since), limit)
                  \X Query(SleepEvents(b, since), limit)
                  \X Query(DiaperEvents(b, since), limit)
                  \X Query(CryingEvents(b, since), limit)}

----------------------------------------------------------------------------
(* Operations *)

Init ==
    /\ babies = {}
    /\ feedings = << >>
    /\ sleeps = << >>
    /\ diapers = << >>
    /\ cryings = << >>
    /\ now = 0
    /\ sessions = NoSessions
    /\ user_data = NoUserData
    /\ conversation = NoConversation
    /\ openai = NoOpenai

(* db.commit(): the store a call leaves is the store *)
Commit(call) ==
    /\ babies' = call.db.babies
    /\ feedings' = call.db.feedings
    /\ sleeps' = call.db.sleeps
    /\ diapers' = call.db.diapers
    /\ cryings' = call.db.cryings

(* the clock of get_sgt_now() advances *)
Tick ==
    /\ now < MaxTime
    /\ now' = now + 1
    /\ UNCHANGED <<babies, feedings, sleeps, diapers, cryings, sessions,
                 user_data, conversation, openai>>

create_baby ==
    /\ NextId(babies) \in BabyIds
    /\ \E name \in BabyNames : Commit(CreateBaby(name))
    /\ UNCHANGED <<now, sessions, user_data, conversation, openai>>

delete_baby(b) ==
    /\ Commit(DeleteBaby(b))
    /\ UNCHANGED <<now, sessions, user_data, conversation, openai>>

start_feeding(b, ft) ==
    /\ TotalRows < MaxRows
    /\ Commit(StartFeeding(b, ft))
    /\ UNCHANGED <<now, sessions, user_data, conversation, openai>>

end_feeding(id, amount) ==
    /\ Commit(EndFeeding(id, amount))
    /\ UNCHANGED <<now, sessions, user_data, conversation, openai>>

start_sleep(b) ==
    /\ TotalRows < MaxRows
    /\ Commit(StartSleep(b))
    /\ UNCHANGED <<now, sessions, user_data, conversation, openai>>

end_sleep(id) ==
    /\ Commit(EndSleep(id))
    /\ UNCHANGED <<now, sessions, user_data, conversation, openai>>

log_diaper_change(b, dt) ==
    /\ TotalRows < MaxRows
    /\ Commit(LogDiaperChange(b, dt))
    /\ UNCHANGED <<now, sessions, user_data, conversation, openai>>

start_crying(b) ==
    /\ TotalRows < MaxRows
    /\ Commit(StartCrying(b))
    /\ UNCHANGED <<now, sessions, user_data, conversation, openai>>

end_crying(id, actual_reason) ==
    /\ Commit(EndCrying(id, actual_reason))
    /\ UNCHANGED <<now, sessions, user_data, conversation, openai>>

(* a query: it persists nothing *)
get_recent_events(b, limit, days) == UNCHANGED vars

Next ==
    \/ Tick
    \/ create_baby
    \/ \E b \in BabyIds : delete_baby(b)
    \/ \E b \in BabyIds, ft \in FeedingTypes : start_feeding(b, ft)
    \/ \E id \in RowIds, amount \in Opt(Amounts) : end_feeding(id, amount)
    \/ \E b \in BabyIds : start_sleep(b)
    \/ \E id \in RowIds : end_sleep(id)
    \/ \E b \in BabyIds, dt \in DiaperTypes : log_diaper_change(b, dt)
    \/ \E b \in BabyIds : start_crying(b)
    \/ \E id \in RowIds, r \in Opt(Reasons) : end_crying(id, r)

(* the store: a query is a stuttering step of it *)
Spec == Init /\ [][Next]_vars

NextRecent ==
    \/ Next
    \/ \E b \in BabyIds, limit \in Limits, days \in Days : get_recent_events(b, limit, days)

(* the store and the queries made of it *)
SpecRecent == Init /\ [][NextRecent]_vars

----------------------------------------------------------------------------
(* Properties *)

Closed(r) == ~IsNone(r.end_time)
Open(r) == IsNone(r.end_time)

(* the readings of the clock from now on *)
Later == now..MaxTime

(* C1: an end call on a session that is already CLOSED changes no field of
   any record, whatever closing attributes it passes, and returns the stored
   record; an end call made after the call that ended a session, at any
   later time and with any attributes, finds the record that call returned. *)
C1_EndClosedIsNoOp ==
    /\ \A id \in DOMAIN feedings, a \in Opt(Amounts) :
          LET first == EndFeeding(id, a)
          IN  /\ Closed(feedings[id]) => first = Return(Some(Obj(id, feedings[id])), db)
              /\ \A a2 \in Opt(Amounts), t2 \in Later :
                    EndFeedingRow(first.db.feedings[id], a2, t2) = Val(first.val).row
    /\ \A id \in DOMAIN sleeps :
          LET first == EndSleep(id)
          IN  /\ Closed(sleeps[id]) => first = Return(Some(Obj(id, sleeps[id])), db)
              /\ \A t2 \in Later :
                    EndSleepRow(first.db.sleeps[id], t2) = Val(first.val).row
    /\ \A id \in DOMAIN cryings, r \in Opt(Reasons) :
          LET first == EndCrying(id, r)
          IN  /\ Closed(cryings[id]) => first = Return(Some(Obj(id, cryings[id])), db)
              /\ \A r2 \in Opt(Reasons), t2 \in Later :
                    EndCryingRow(first.db.cryings[id], r2, t2) = Val(first.val).row

(* a feeding closed with one amount, at a time when a second end call reads
   a later clock and can pass another amount *)
C1_Witness ==
    \E id \in DOMAIN feedings :
        /\ feedings[id].end_time = Some(0)
        /\ feedings[id].amount = Some(0)
        /\ now > 0

(* C2: once end_time of a session is set, no step sets it back to null or
   to another value. *)
C2_Step ==
    /\ \A id \in DOMAIN feedings \cap DOMAIN feedings' :
          Closed(feedings[id]) => feedings'[id].end_time = feedings[id].end_time
    /\ \A id \in DOMAIN sleeps \cap DOMAIN sleeps' :
          Closed(sleeps[id]) => sleeps'[id].end_time = sleeps[id].end_time
    /\ \A id \in DOMAIN cryings \cap DOMAIN cryings' :
          Closed(cryings[id]) => cryings'[id].end_time = cryings[id].end_time

C2_ClosedIsTerminal == [][C2_Step]_vars

(* a sleep closed at an earlier time than the present one *)
C2_Witness ==
    \E id \in DOMAIN sleeps : Closed(sleeps[id]) /\ Val(sleeps[id].end_time) < now

(* C3: every session with both times set has end_time >= start_time. *)
C3_EndNotBeforeStart ==
    /\ \A id \in DOMAIN feedings :
          Closed(feedings[id]) => Val(feedings[id].end_time) >= feedings[id].start_time
    /\ \A id \in DOMAIN sleeps :
          Closed(sleeps[id]) => Val(sleeps[id].end_time) >= sleeps[id].start_time
    /\ \A id \in DOMAIN cryings :
          Closed(cryings[id]) => Val(cryings[id].end_time) >= cryings[id].start_time

(* a crying episode ended at the tick it started, and another ended later *)
C3_Witness ==
    /\ \E id \in DOMAIN cryings :
          Closed(cryings[id]) /\ Val(cryings[id].end_time) = cryings[id].start_time
    /\ \E id \in DOMAIN cryings :
          Closed(cryings[id]) /\ Val(cryings[id].end_time) > cryings[id].start_time

(* C4: at most one OPEN session per baby and kind. *)
OpenOf(t, b) == {id \in DOMAIN t : t[id].baby_id = b /\ Open(t[id])}

C4_AtMostOneOpen ==
    \A b \in BabyIds :
        /\ Cardinality(OpenOf(feedings, b)) <= 1
        /\ Cardinality(OpenOf(sleeps, b)) <= 1
        /\ Cardinality(OpenOf(cryings, b)) <= 1

(* two sleeps of baby 1 with end_time null: Sleep, Back to Menu, Sleep *)
C4_TwoOpenSleeps == Cardinality(OpenOf(sleeps, 1)) = 2

(* C5: a start call for an existing baby returns, and adds exactly one
   record, of that baby, with start_time the current time and end_time null;
   every record stored before, of any kind, is left as it was. *)
AddsOne(t, tNew, b) ==
    \E id \in DOMAIN tNew \ DOMAIN t :
        /\ DOMAIN tNew = DOMAIN t \cup {id}
        /\ tNew[id].baby_id = b
        /\ tNew[id].start_time = get_sgt_now
        /\ Open(tNew[id])
        /\ \A i \in DOMAIN t : tNew[i] = t[i]

C5_StartAddsOneOpen ==
    \A b \in babies :
        /\ \A ft \in FeedingTypes :
              LET call == StartFeeding(b, ft)
              IN  /\ call.err = ""
                  /\ AddsOne(feedings, call.db.feedings, b)
                  /\ call.db = [db EXCEPT !.feedings = call.db.feedings]
        /\ LET call == StartSleep(b)
           IN  /\ call.err = ""
               /\ AddsOne(sleeps, call.db.sleeps, b)
               /\ call.db = [db EXCEPT !.sleeps = call.db.sleeps]
        /\ LET call == StartCrying(b)
           IN  /\ call.err = ""
               /\ AddsOne(cryings, call.db.cryings, b)
               /\ call.db = [db EXCEPT !.cryings = call.db.cryings]

(* a session started now, OPEN, next to a record stored at an earlier time *)
C5_Witness ==
    /\ \E id \in DOMAIN sleeps : Open(sleeps[id]) /\ sleeps[id].start_time = now
    /\ \E id \in DOMAIN feedings : feedings[id].start_time < now

(* C6: an end call on an OPEN session sets end_time to the current time and
   stores each closing attribute that is provided; an attribute that is not
   provided keeps its value; the call returns the record as stored. *)
Merge(new, old) == IF IsNone(new) THEN old ELSE new

C6_EndOpenCloses ==
    /\ \A id \in DOMAIN feedings, a \in Opt(Amounts) :
          Open(feedings[id]) =>
             LET call == EndFeeding(id, a)
             IN  /\ call.db.feedings[id]
                       = [feedings[id] EXCEPT !.end_time = Some(get_sgt_now),
                                              !.amount = Merge(a, @)]
                 /\ call.val = Some(Obj(id, call.db.feedings[id]))
    /\ \A id \in DOMAIN sleeps :
          Open(sleeps[id]) =>
             LET call == EndSleep(id)
             IN  /\ call.db.sleeps[id] = [sleeps[id] EXCEPT !.end_time = Some(get_sgt_now)]
                 /\ call.val = Some(Obj(id, call.db.sleeps[id]))
    /\ \A id \in DOMAIN cryings, r \in Opt(Reasons) :
          Open(cryings[id]) =>
             LET call == EndCrying(id, r)
             IN  /\ call.db.cryings[id]
                       = [cryings[id] EXCEPT !.end_time = Some(get_sgt_now),
                                             !.actual_reason = Merge(r, @)]
                 /\ call.val = Some(Obj(id, call.db.cryings[id]))

(* a feeding ended with amount 0 and a crying ended with a reason *)
C6_Witness ==
    /\ \E id \in DOMAIN feedings :
          Closed(feedings[id]) /\ feedings[id].amount = Some(0)
    /\ \E id \in DOMAIN cryings :
          Closed(cryings[id]) /\ cryings[id].actual_reason = Some("HUNGRY")

(* C7: a start call or a diaper log for a baby id that does not exist raises
   the store's IntegrityError and persists no record; every event record
   references an existing baby. *)
References(t) == \A id \in DOMAIN t : t[id].baby_id \in babies

AllReference ==
    References(feedings) /\ References(sleeps) /\ References(diapers) /\ References(cryings)

FailsWith(e) ==
    \A b \in BabyIds \ babies :
        /\ \A ft \in FeedingTypes : StartFeeding(b, ft) = Raise(e)
        /\ StartSleep(b) = Raise(e)
        /\ \A dt \in DiaperTypes : LogDiaperChange(b, dt) = Raise(e)
        /\ StartCrying(b) = Raise(e)

C7_MissingBabyIntegrityError == AllReference /\ FailsWith("IntegrityError")

(* the claim as stated: the failure is NotFound *)
C7_MissingBabyNotFound == AllReference /\ FailsWith("NotFound")

(* baby 1 was deleted while baby 2 has records *)
C7_Witness == babies = {2} /\ TotalRows = MaxRows

(* C8: an end call with a session id that does not exist fails with NotFound
   and changes no record. *)
C8_MissingIdNotFound ==
    /\ \A id \in RowIds \ DOMAIN feedings, a \in Opt(Amounts) :
          EndFeeding(id, a) = Raise("NotFound")
    /\ \A id \in RowIds \ DOMAIN sleeps : EndSleep(id) = Raise("NotFound")
    /\ \A id \in RowIds \ DOMAIN cryings, r \in Opt(Reasons) :
          EndCrying(id, r) = Raise("NotFound")

(* baby 1 is gone and no sleep is stored: end_sleep(db, 1), with the id the
   front end still holds, returns None *)
C8_SleepGone == sleeps = << >> /\ babies = {2} /\ EndSleep(1) = Return(None, db)

(* C9: delete_baby removes the baby and every record that references it and
   leaves the records of the other babies as they were; for a baby id that
   does not exist it returns False and changes nothing. *)
Removes(t, tNew, b) ==
    /\ DOMAIN tNew = {id \in DOMAIN t : t[id].baby_id # b}
    /\ \A id \in DOMAIN tNew : tNew[id] = t[id]

C9_DeleteCascades ==
    \A b \in BabyIds :
        LET call == DeleteBaby(b)
        IN  IF b \in babies
            THEN /\ call.err = ""
                 /\ call.val = TRUE
                 /\ call.db.babies = babies \ {b}
                 /\ Removes(feedings, call.db.feedings, b)
                 /\ Removes(sleeps, call.db.sleeps, b)
                 /\ Removes(diapers, call.db.diapers, b)
                 /\ Removes(cryings, call.db.cryings, b)
            ELSE call = Return(FALSE, db)

(* baby 1 is gone, the records of baby 2 are there, and none is of baby 1 *)
C9_Witness ==
    /\ babies = {2}
    /\ \E id \in DOMAIN diapers : diapers[id].baby_id = 2
    /\ \E id \in DOMAIN feedings : feedings[id].baby_id = 2

(* C10: get_recent_events(b, limit, days) returns at most limit items, all
   of baby b, each with its time in [now - days, now], latest first: the
   times never increase along the list (events of equal time are adjacent). *)
Bounded(r, b, limit, days) ==
    /\ Len(r) <= limit
    /\ \A i \in 1..Len(r) :
          /\ r[i].data.row.baby_id = b
          /\ r[i].time >= get_sgt_now - timedelta(days)
          /\ r[i].time <= get_sgt_now

C10_RecentEventsDescending ==
    \A b \in BabyIds, limit \in Limits, days \in Days :
        \A r \in RecentEvents(b, limit, days) :
            /\ Bounded(r, b, limit, days)
            /\ \A i, j \in 1..Len(r) : i < j => r[i].time >= r[j].time

(* the claim as stated: the times strictly decrease *)
C10_RecentEventsStrictlyDescending ==
    \A b \in BabyIds, limit \in Limits, days \in Days :
        \A r \in RecentEvents(b, limit, days) :
            /\ Bounded(r, b, limit, days)
            /\ \A i, j \in 1..Len(r) : i < j => r[i].time > r[j].time

(* baby 1 has two events of different times in the window of one day; the
   limit 1 lets one of them through, and the window of no days holds only
   the later one *)
C10_Witness ==
    /\ \E r \in RecentEvents(1, 2, 1) : Len(r) = 2 /\ r[1].time > r[2].time
    /\ \A r \in RecentEvents(1, 1, 1) : Len(r) = 1
    /\ \A r \in RecentEvents(1, 2, 0) : Len(r) = 1

----------------------------------------------------------------------------
(* Datetime arithmetic of the statistics queries.  A difference of two
   datetimes is counted in seconds; a datetime in seconds since tick 0: the
   reading of a naive one, the Singapore reading of an aware one.  A
   DateTime column keeps the digits of the value written to it and returns
   them as a naive datetime. *)

(* SGT = pytz.timezone('Asia/Singapore'): its offset from UTC, in seconds *)
SGT == 28800

Seconds(t) == t * TickSeconds

(* utc_to_sgt of an aware datetime: the same instant *)

(* utc_to_sgt(utc_time) of a naive datetime: its digits read as UTC, as the
   aware Singapore time of that instant *)
utc_to_sgt(naive) == naive + SGT

(* datetime(now.year, now.month, now.day): the start of the day of t *)
Midnight(t) == (t \div DayTicks) * DayTicks

(* round(n / d): Python rounds to the nearest, halves to the even one *)
round(n, d) ==
    LET q == n \div d
        r == n % d
    IN  IF 2 * r < d THEN q
        ELSE IF 2 * r > d THEN q + 1
        ELSE IF q % 2 = 0 THEN q ELSE q + 1

RECURSIVE sum(_, _)
sum(f, S) ==
    IF S = {} THEN 0
    ELSE LET x == CHOOSE y \in S : TRUE IN f[x] + sum(f, S \ {x})

(* the loop body of get_baby_stats and get_sleep_duration: the seconds one
   sleep adds to total_sleep_seconds *)
SleepSeconds(sleep) ==
    LET sleep_start == utc_to_sgt(Seconds(sleep.start_time))
    IN  IF ~IsNone(sleep.end_time)
        THEN utc_to_sgt(Seconds(Val(sleep.end_time))) - sleep_start
        ELSE Seconds(get_sgt_now) - sleep_start

Count(rows) == Cardinality(rows)

(* get_baby_stats(db, baby_id, days); total_sleep_hours is counted in
   3600ths of an hour, crying_reasons is keyed by the reason *)
GetBabyStats(baby_id, days) ==
    LET since == get_sgt_now - timedelta(days)
        sleep_query == {i \in DOMAIN sleeps :
                          sleeps[i].baby_id = baby_id /\ sleeps[i].start_time >= since}
        total_sleep_seconds == sum([i \in sleep_query |-> SleepSeconds(sleeps[i])], sleep_query)
        Fed(f) == f.baby_id = baby_id /\ f.start_time >= since
        Changed(d) == d.baby_id = baby_id /\ d.time >= since
        Wet(d) == Changed(d) /\ d.type = "WET"
        Dirty(d) == Changed(d) /\ d.type = "DIRTY"
        Both(d) == Changed(d) /\ d.type = "BOTH"
        Cried(c) == c.baby_id = baby_id /\ c.start_time >= since
    IN  [feeding_count |-> Count({i \in DOMAIN feedings : Fed(feedings[i])}),
         total_sleep_hours |-> total_sleep_seconds,
         diaper_count |-> Count({i \in DOMAIN diapers : Changed(diapers[i])}),
         wet_diapers |-> Count({i \in DOMAIN diapers : Wet(diapers[i])}),
         dirty_diapers |-> Count({i \in DOMAIN diapers : Dirty(diapers[i])}),
         both_diapers |-> Count({i \in DOMAIN diapers : Both(diapers[i])}),
         crying_count |-> Count({i \in DOMAIN cryings : Cried(cryings[i])}),
         crying_reasons |->
             [reason \in CryingReason |->
                 Cardinality({i \in DOMAIN cryings :
                                Cried(cryings[i]) /\ cryings[i].actual_reason = Some(reason)})]]

(* start_time > start_time, for start_time >= start_time *)
After(t, start) == t > start

(* Feeding.start_time >= start_time *)
NotBefore(t, start) == t >= start

(* Feeding.start_time <= end_time *)
NotAfter(t, end) == t <= end

(* get_feeding_count(db, baby_id, start_time, end_time) with naive or missing
   bounds *)
GetFeedingCount(baby_id, start_time, end_time) ==
    LET start == IF IsNone(start_time) THEN Seconds(Midnight(get_sgt_now))
                 ELSE Val(start_time)
        end == IF IsNone(end_time) THEN Seconds(get_sgt_now) ELSE Val(end_time)
        Fed(f) == /\ f.baby_id = baby_id
                  /\ NotBefore(Seconds(f.start_time), start)
                  /\ NotAfter(Seconds(f.start_time), end)
        Breast(f) == Fed(f) /\ f.type = "BREAST"
        Bottle(f) == Fed(f) /\ f.type = "BOTTLE"
        Solid(f) == Fed(f) /\ f.type = "SOLID"
        measured == {i \in DOMAIN feedings : Bottle(feedings[i]) /\ ~IsNone(feedings[i].amount)}
        breast_count == Count({i \in DOMAIN feedings : Breast(feedings[i])})
        bottle_count == Count({i \in DOMAIN feedings : Bottle(feedings[i])})
        solid_count == Count({i \in DOMAIN feedings : Solid(feedings[i])})
    IN  [total_count |-> breast_count + bottle_count + solid_count,
         breast_count |-> breast_count,
         bottle_count |-> bottle_count,
         solid_count |-> solid_count,
         total_amount |-> sum([i \in measured |-> Val(feedings[i].amount)], measured),
         start_time |-> start,
         end_time |-> end]

(* get_diaper_count(db, baby_id, start_time, end_time) with naive or missing
   bounds *)
GetDiaperCount(baby_id, start_time, end_time) ==
    LET start == IF IsNone(start_time) THEN Seconds(Midnight(get_sgt_now))
                 ELSE Val(start_time)
        end == IF IsNone(end_time) THEN Seconds(get_sgt_now) ELSE Val(end_time)
        Changed(d) == /\ d.baby_id = baby_id
                      /\ NotBefore(Seconds(d.time), start)
                      /\ NotAfter(Seconds(d.time), end)
        Wet(d) == Changed(d) /\ d.type = "WET"
        Dirty(d) == Changed(d) /\ d.type = "DIRTY"
        Both(d) == Changed(d) /\ d.type = "BOTH"
        wet_count == Count({i \in DOMAIN diapers : Wet(diapers[i])})
        dirty_count == Count({i \in DOMAIN diapers : Dirty(diapers[i])})
        both_count == Count({i \in DOMAIN diapers : Both(diapers[i])})
    IN  [total_count |-> wet_count + dirty_count + both_count,
         wet_count |-> wet_count,
         dirty_count |-> dirty_count,
         both_count |-> both_count,
         start_time |-> start,
         end_time |-> end]

(* get_sleep_duration(db, baby_id, start_time, end_time) with naive or
   missing bounds; total_hours is counted in tenths of an hour *)
GetSleepDuration(baby_id, start_time, end_time) ==
    LET start == IF IsNone(start_time) THEN Seconds(Midnight(get_sgt_now))
                 ELSE utc_to_sgt(Val(start_time))
        end == IF IsNone(end_time) THEN Seconds(get_sgt_now)
               ELSE utc_to_sgt(Val(end_time))
        sleep_sessions == {i \in DOMAIN sleeps :
                             /\ sleeps[i].baby_id = baby_id
                             /\ NotBefore(Seconds(sleeps[i].start_time), start)
                             /\ NotAfter(Seconds(sleeps[i].start_time), end)}
        total_sleep_seconds ==
            sum([i \in sleep_sessions |-> SleepSeconds(sleeps[i])], sleep_sessions)
        completed_sessions == Cardinality({i \in sleep_sessions : ~IsNone(sleeps[i].end_time)})
        ongoing_sessions == Cardinality({i \in sleep_sessions : IsNone(sleeps[i].end_time)})
    IN  [total_hours |-> round(total_sleep_seconds * 10, 3600),
         completed_sessions |-> completed_sessions,
         ongoing_sessions |-> ongoing_sessions,
         total_sessions |-> completed_sessions + ongoing_sessions,
         start_time |-> start,
         end_time |-> end]

(* CryingReason.value *)
value(reason) ==
    CASE reason = "HUNGRY" -> "hungry"
      [] reason = "DIAPER" -> "diaper"
      [] reason = "ATTENTION" -> "attention"
      [] reason = "UNKNOWN" -> "unknown"

(* get_crying_episodes(db, baby_id, start_time, end_time) with naive or
   missing bounds.  For an ongoing episode it subtracts the naive start_time
   read from the store from the aware get_sgt_now(), which Python refuses. *)
GetCryingEpisodes(baby_id, start_time, end_time) ==
    LET start == IF IsNone(start_time) THEN Seconds(Midnight(get_sgt_now))
                 ELSE Val(start_time)
        end == IF IsNone(end_time) THEN Seconds(get_sgt_now) ELSE Val(end_time)
        crying_episodes == {i \in DOMAIN cryings :
                              /\ cryings[i].baby_id = baby_id
                              /\ NotBefore(Seconds(cryings[i].start_time), start)
                              /\ NotAfter(Seconds(cryings[i].start_time), end)}
        completed == {i \in crying_episodes : ~IsNone(cryings[i].end_time)}
        ongoing == crying_episodes \ completed
        total_crying_seconds ==
            sum([i \in completed |->
                    Seconds(Val(cryings[i].end_time)) - Seconds(cryings[i].start_time)],
                completed)
        reason(i) == IF ~IsNone(cryings[i].actual_reason)
                     THEN value(Val(cryings[i].actual_reason)) ELSE "unknown"
    IN  IF ongoing # {}
        THEN Raise("TypeError")
        ELSE Return([total_minutes |-> round(total_crying_seconds, 60),
                     completed_episodes |-> Cardinality(completed),
                     ongoing_episodes |-> 0,
                     total_episodes |-> Cardinality(completed),
                     reasons |-> [r \in {reason(i) : i \in completed} |->
                                     Cardinality({i \in completed : reason(i) = r})],
                     start_time |-> start,
                     end_time |-> end], db)

(* Feeding.start_time, Diaper.time: the column a query orders by *)
StartTime(r) == r.start_time

DiaperTime(r) == r.time

StartTimes(t) == [i \in DOMAIN t |-> StartTime(t[i])]

DiaperTimes(t) == [i \in DOMAIN t |-> DiaperTime(t[i])]

(* .order_by(T.start_time).first(): the rows that can come first in
   ascending order *)
Earliest(t, baby_id, time) ==
    LET S == {i \in DOMAIN t : t[i].baby_id = baby_id}
    IN  {i \in S : \A j \in S : time[i] <= time[j]}

(* .order_by(T.start_time.desc()).first(): the rows that can come first;
   rows of equal time come in any order *)
Latest(t, baby_id, time) ==
    LET S == {i \in DOMAIN t : t[i].baby_id = baby_id}
    IN  {i \in S : \A j \in S : time[j] <= time[i]}

(* round(duration_minutes) of a session that has ended, if it has *)
DurationMinutes(r) ==
    IF ~IsNone(r.end_time)
    THEN Some(round(Seconds(Val(r.end_time)) - Seconds(r.start_time), 60))
    ELSE None

(* round(duration_minutes) of a session that has or has not ended *)
OngoingMinutes(r) ==
    IF ~IsNone(r.end_time)
    THEN round(Seconds(Val(r.end_time)) - Seconds(r.start_time), 60)
    ELSE round(Seconds(get_sgt_now) - utc_to_sgt(Seconds(r.start_time)), 60)

(* get_last_feeding with order_by(Feeding.start_time) for
   order_by(Feeding.start_time.desc()) *)
FirstFeeding(t, baby_id) ==
    LET first == Earliest(t, baby_id, StartTimes(t))
    IN  IF first = {} THEN {[found |-> FALSE]}
        ELSE {[found |-> TRUE,
               type |-> t[i].type,
               start_time |-> t[i].start_time,
               end_time |-> t[i].end_time,
               amount |-> t[i].amount,
               duration_minutes |-> DurationMinutes(t[i])] : i \in first}

(* the results get_last_feeding(db, baby_id) can return from the table t *)
LastFeeding(t, baby_id) ==
    LET first == Latest(t, baby_id, StartTimes(t))
    IN  IF first = {} THEN {[found |-> FALSE]}
        ELSE {[found |-> TRUE,
               type |-> t[i].type,
               start_time |-> t[i].start_time,
               end_time |-> t[i].end_time,
               amount |-> t[i].amount,
               duration_minutes |-> DurationMinutes(t[i])] : i \in first}

(* get_last_sleep(db, baby_id) *)
LastSleep(t, baby_id) ==
    LET first == Latest(t, baby_id, StartTimes(t))
    IN  IF first = {} THEN {[found |-> FALSE]}
        ELSE {[found |-> TRUE,
               start_time |-> t[i].start_time,
               end_time |-> t[i].end_time,
               duration_minutes |-> OngoingMinutes(t[i]),
               is_ongoing |-> IsNone(t[i].end_time)] : i \in first}

(* get_last_diaper(db, baby_id) *)
LastDiaper(t, baby_id) ==
    LET first == Latest(t, baby_id, DiaperTimes(t))
    IN  IF first = {} THEN {[found |-> FALSE]}
        ELSE {[found |-> TRUE, type |-> t[i].type, time |-> t[i].time] : i \in first}

(* get_last_crying(db, baby_id) *)
LastCrying(t, baby_id) ==
    LET first == Latest(t, baby_id, StartTimes(t))
    IN  IF first = {} THEN {[found |-> FALSE]}
        ELSE {[found |-> TRUE,
               start_time |-> t[i].start_time,
               end_time |-> t[i].end_time,
               reason |-> t[i].actual_reason,
               duration_minutes |-> OngoingMinutes(t[i]),
               is_ongoing |-> IsNone(t[i].end_time)] : i \in first}

(* .order_by(T.start_time): the times of the rows, earliest first; time
   maps a row's id to its time, and rows of equal time have equal times *)
RECURSIVE OrderBy(_)
OrderBy(time) ==
    IF DOMAIN time = {} THEN << >>
    ELSE LET i == CHOOSE j \in DOMAIN time : \A k \in DOMAIN time : time[j] <= time[k]
         IN  <<time[i]>> \o OrderBy([k \in DOMAIN time \ {i} |-> time[k]])

(* the intervals with prev_time - curr_time for curr_time - prev_time *)
IntervalsSwapped(times) ==
    [i \in 1..(Len(times) - 1) |->
        utc_to_sgt(Seconds(times[i])) - utc_to_sgt(Seconds(times[i + 1]))]

(* the intervals of get_baby_schedule, in seconds: both times go through
   utc_to_sgt *)
Intervals(times) ==
    [i \in 1..(Len(times) - 1) |->
        utc_to_sgt(Seconds(times[i + 1])) - utc_to_sgt(Seconds(times[i]))]

(* round(sum(xs) / len(xs) if xs else 0, 1), xs in seconds, in tenths of an
   hour *)
Average(xs) ==
    IF Len(xs) = 0 THEN 0
    ELSE round(sum(xs, DOMAIN xs) * 10, 3600 * Len(xs))

(* get_baby_schedule(db, baby_id, days); the averages are counted in tenths
   of an hour *)
GetBabySchedule(baby_id, days) ==
    LET end_time == get_sgt_now
        start_time == end_time - timedelta(days)
        In(time) == NotBefore(time, start_time) /\ NotAfter(time, end_time)
        fs == {i \in DOMAIN feedings :
                 feedings[i].baby_id = baby_id /\ In(feedings[i].start_time)}
        ss == {i \in DOMAIN sleeps :
                 sleeps[i].baby_id = baby_id /\ In(sleeps[i].start_time)}
        ds == {i \in DOMAIN diapers :
                 diapers[i].baby_id = baby_id /\ In(diapers[i].time)}
        ended == {i \in ss : ~IsNone(sleeps[i].end_time)}
        sleep_durations == [i \in ended |-> SleepSeconds(sleeps[i])]
    IN  [avg_feeding_interval_hours |-> Average(Intervals(OrderBy([i \in fs |-> feedings[i].start_time]))),
         avg_sleep_interval_hours |-> Average(Intervals(OrderBy([i \in ss |-> sleeps[i].start_time]))),
         avg_diaper_interval_hours |-> Average(Intervals(OrderBy([i \in ds |-> diapers[i].time]))),
         avg_sleep_duration_hours |->
             IF ended = {} THEN 0
             ELSE round(sum(sleep_durations, ended) * 10, 3600 * Cardinality(ended)),
         feeding_count |-> Cardinality(fs),
         sleep_count |-> Cardinality(ss),
         diaper_count |-> Cardinality(ds),
         days_analyzed |-> days]

(* the statistics queries: they persist nothing *)
get_baby_stats(b, days) == UNCHANGED vars

get_crying_episodes(b, start_time, end_time) == UNCHANGED vars

get_feeding_count(b, start_time, end_time) == UNCHANGED vars

get_diaper_count(b, start_time, end_time) == UNCHANGED vars

get_baby_schedule(b, days) == UNCHANGED vars

get_last_feeding(b) == UNCHANGED vars

get_last_sleep(b) == UNCHANGED vars

get_last_diaper(b) == UNCHANGED vars

get_last_crying(b) == UNCHANGED vars

get_sleep_duration(b, start_time, end_time) == UNCHANGED vars

(* datetime.utcnow(): the naive UTC datetime of the instant *)
utcnow(t) == Seconds(t) - SGT

(* the window bounds the callers pass: none, or the naive datetime of an
   instant, in UTC (parse_time_period) or as the store holds it *)
Times == {utcnow(t) : t \in 0..MaxTime} \cup {Seconds(t) : t \in 0..MaxTime}

NextStats ==
    \/ Tick
    \/ create_baby
    \/ \E b \in BabyIds, ft \in FeedingTypes : start_feeding(b, ft)
    \/ \E id \in RowIds, amount \in Opt(Amounts) : end_feeding(id, amount)
    \/ \E b \in BabyIds : start_sleep(b)
    \/ \E id \in RowIds : end_sleep(id)
    \/ \E b \in BabyIds, dt \in DiaperType : log_diaper_change(b, dt)
    \/ \E b \in BabyIds : start_crying(b)
    \/ \E id \in RowIds, r \in Opt(Reasons) : end_crying(id, r)
    \/ \E b \in BabyIds, days \in Days : get_baby_stats(b, days)
    \/ \E b \in BabyIds, s \in Opt(Times), e \in Opt(Times) : get_sleep_duration(b, s, e)
    \/ \E b \in BabyIds, s \in Opt(Times), e \in Opt(Times) : get_crying_episodes(b, s, e)
    \/ \E b \in BabyIds, s \in Opt(Times), e \in Opt(Times) : get_feeding_count(b, s, e)
    \/ \E b \in BabyIds, s \in Opt(Times), e \in Opt(Times) : get_diaper_count(b, s, e)
    \/ \E b \in BabyIds, days \in Days : get_baby_schedule(b, days)
    \/ \E b \in BabyIds : get_last_feeding(b)
    \/ \E b \in BabyIds : get_last_sleep(b)
    \/ \E b \in BabyIds : get_last_diaper(b)
    \/ \E b \in BabyIds : get_last_crying(b)

(* the store and the statistics queries made of it *)
SpecStats == Init /\ [][NextStats]_vars

(* C11: the total duration reported for a kind over a window is the sum, over
   the sessions of that baby and kind that start in the window, of
   end_time - start_time for a CLOSED session and now - start_time for an
   OPEN one, now being read at the call.  Stated of the sleep total of
   get_baby_stats over the last `days` days and of get_sleep_duration over
   today, in the units each reports. *)
Duration(r) == IF Closed(r) THEN Val(r.end_time) - r.start_time ELSE now - r.start_time

TotalDuration(t, b, from, to) ==
    LET S == {i \in DOMAIN t : t[i].baby_id = b /\ t[i].start_time >= from
                                 /\ t[i].start_time <= to}
    IN  Seconds(sum([i \in S |-> Duration(t[i])], S))

C11_TotalDurationIsSum ==
    \A b \in BabyIds :
        /\ \A days \in Days :
              GetBabyStats(b, days).total_sleep_hours
                  = TotalDuration(sleeps, b, now - timedelta(days), now)
        /\ GetSleepDuration(b, None, None).total_hours
              = round(TotalDuration(sleeps, b, Midnight(now), now) * 10, 3600)

(* baby 1 has an OPEN sleep that started today *)
C11_OpenSleep ==
    \E i \in DOMAIN sleeps :
        /\ sleeps[i].baby_id = 1
        /\ Open(sleeps[i])
        /\ sleeps[i].start_time >= Midnight(now)

(* C12: when a window holds an OPEN session and the store is not modified
   between two total-duration queries over that window, made at instants
   t1 < t2, the second total is strictly greater than the first.  Stated of
   a step of the clock alone, for get_sleep_duration and
   get_crying_episodes over a window given by its two bounds. *)
InWindow(r, s, e) == Seconds(r.start_time) >= s /\ Seconds(r.start_time) <= e

OpenIn(t, b, s, e) ==
    \E i \in DOMAIN t : t[i].baby_id = b /\ Open(t[i]) /\ InWindow(t[i], s, e)

C12_Step ==
    now' > now /\ UNCHANGED <<babies, feedings, sleeps, diapers, cryings>> =>
        \A b \in BabyIds, s \in Times, e \in Times :
            /\ OpenIn(sleeps, b, utc_to_sgt(s), utc_to_sgt(e)) =>
                  GetSleepDuration(b, Some(s), Some(e))'.total_hours
                      > GetSleepDuration(b, Some(s), Some(e)).total_hours
            /\ OpenIn(cryings, b, s, e) =>
                  LET first == GetCryingEpisodes(b, Some(s), Some(e))
                      second == GetCryingEpisodes(b, Some(s), Some(e))'
                  IN  /\ first.err = ""
                      /\ second.err = ""
                      /\ second.val.total_minutes > first.val.total_minutes

C12_OpenSessionGrows == [][C12_Step]_vars

(* baby 1 has an OPEN crying episode in a window, before the end of the clock *)
C12_OpenCrying ==
    /\ now < MaxTime
    /\ \E s \in Times, e \in Times : OpenIn(cryings, 1, s, e)

(* C13: a count query over a window [start, end) counts exactly the events
   with start <= anchor time < end: an event whose anchor time is the end of
   the window is not counted, so of two adjacent windows [a, b) and [b, c)
   exactly one counts it.  Stated of get_feeding_count and get_diaper_count. *)
HalfOpen(t, b, anchor, s, e) ==
    Cardinality({i \in DOMAIN t :
                   t[i].baby_id = b /\ s <= Seconds(anchor[i]) /\ Seconds(anchor[i]) < e})

C13_HalfOpenWindow ==
    \A b \in BabyIds, s \in Times, e \in Times :
        /\ GetFeedingCount(b, Some(s), Some(e)).total_count
              = HalfOpen(feedings, b, StartTimes(feedings), s, e)
        /\ GetDiaperCount(b, Some(s), Some(e)).total_count
              = HalfOpen(diapers, b, DiaperTimes(diapers), s, e)

(* a feeding of baby 1 starts at the instant where one window ends and the
   next begins, and both windows count it *)
C13_CountedTwice ==
    \E a \in Times, b \in Times, c \in Times :
        /\ a < b /\ b < c
        /\ \E i \in DOMAIN feedings :
              feedings[i].baby_id = 1 /\ Seconds(feedings[i].start_time) = b
        /\ GetFeedingCount(1, Some(a), Some(b)).total_count = 1
        /\ GetFeedingCount(1, Some(b), Some(c)).total_count = 1
        /\ GetFeedingCount(1, Some(a), Some(c)).total_count = 1

(* C14: a session that is started and then ended at the same instant has
   duration 0 and is counted exactly once by the count query of its kind for
   any window that contains its start_time.  Stated of feedings:
   end_feeding at the instant of start_feeding leaves end_time = start_time,
   get_last_feeding reports 0 minutes for it, and get_feeding_count over a
   window [s, e) that holds its start_time counts it and the baby's other
   feedings of the window once each. *)
ZeroLength(r) == Closed(r) /\ Val(r.end_time) = r.start_time

C14_ZeroLengthCountedOnce ==
    /\ \A id \in DOMAIN feedings, amount \in Opt(Amounts) :
          Open(feedings[id]) /\ feedings[id].start_time = now =>
              ZeroLength(Val(EndFeeding(id, amount).val).row)
    /\ \A i \in DOMAIN feedings :
          ZeroLength(feedings[i]) =>
              LET b == feedings[i].baby_id
                  t == Seconds(feedings[i].start_time)
              IN  /\ Latest(feedings, b, StartTimes(feedings)) = {i} =>
                        \A res \in LastFeeding(feedings, b) : res.duration_minutes = Some(0)
                  /\ \A s \in Times, e \in Times :
                        s <= t /\ t < e =>
                            LET n == GetFeedingCount(b, Some(s), Some(e)).total_count
                            IN  /\ n >= 1
                                /\ n = Cardinality({j \in DOMAIN feedings :
                                          /\ feedings[j].baby_id = b
                                          /\ s <= Seconds(feedings[j].start_time)
                                          /\ Seconds(feedings[j].start_time) <= e})

(* baby 1 has a feeding that ended at the instant it started, the last of
   its feedings, and a window begins at that instant *)
C14_Witness ==
    \E i \in DOMAIN feedings :
        /\ feedings[i].baby_id = 1
        /\ ZeroLength(feedings[i])
        /\ Latest(feedings, 1, StartTimes(feedings)) = {i}
        /\ \E s \in Times, e \in Times :
              s = Seconds(feedings[i].start_time) /\ s < e

(* C15: after any sequence of start_feeding, start_sleep / end_sleep and
   log_diaper_change calls made within the last `days` days, get_baby_stats
   reports feeding_count equal to the number of feedings started, the wet,
   dirty and both counts equal to the number of diaper changes logged with
   each type, diaper_count equal to the number of diaper changes, and
   total_sleep_hours equal to the summed sleep durations. *)
Of(t, b) == {i \in DOMAIN t : t[i].baby_id = b}

Typed(t, b, type) == {i \in Of(t, b) : t[i].type = type}

AllWithin(b, days) ==
    /\ \A i \in Of(feedings, b) : feedings[i].start_time >= now - timedelta(days)
    /\ \A i \in Of(sleeps, b) : sleeps[i].start_time >= now - timedelta(days)
    /\ \A i \in Of(diapers, b) : diapers[i].time >= now - timedelta(days)

C15_StatsMatchCalls ==
    \A b \in BabyIds, days \in Days :
        AllWithin(b, days) =>
            LET stats == GetBabyStats(b, days)
            IN  /\ stats.feeding_count = Cardinality(Of(feedings, b))
                /\ stats.wet_diapers = Cardinality(Typed(diapers, b, "WET"))
                /\ stats.dirty_diapers = Cardinality(Typed(diapers, b, "DIRTY"))
                /\ stats.both_diapers = Cardinality(Typed(diapers, b, "BOTH"))
                /\ stats.diaper_count = Cardinality(Of(diapers, b))
                /\ stats.total_sleep_hours
                      = Seconds(sum([i \in Of(sleeps, b) |-> Duration(sleeps[i])], Of(sleeps, b)))

(* baby 1 has a diaper change and an OPEN sleep, both of the last day *)
C15_DiaperAndOpenSleep ==
    /\ AllWithin(1, 1)
    /\ Of(diapers, 1) # {}
    /\ \E i \in Of(sleeps, 1) : Open(sleeps[i])

(* C16: the average interval of a kind is 0 when fewer than two events of
   that kind lie in the window; otherwise it is the mean of the gaps between
   consecutive events in ascending order of anchor time, rounded to a tenth
   of an hour, and each gap is non-negative. *)
InLast(t, b, time, days) ==
    {i \in Of(t, b) : time[i] >= now - timedelta(days) /\ time[i] <= now}

(* the gaps in seconds: each row but the earliest against the latest of the
   rows before it *)
Gaps(t, S, time) ==
    LET rest == {i \in S : \E j \in S : time[j] < time[i]
                                        \/ (time[j] = time[i] /\ j < i)}
        Prev(i) == Max({time[j] : j \in {k \in S : time[k] < time[i]
                                                       \/ (time[k] = time[i] /\ k < i)}})
    IN  [i \in rest |-> Seconds(time[i] - Prev(i))]

(* reported, in tenths of an hour, is the mean of gaps rounded to a tenth *)
RoundedMean(reported, gaps) ==
    /\ \A i \in DOMAIN gaps : gaps[i] >= 0
    /\ IF DOMAIN gaps = {} THEN reported = 0
       ELSE LET n == Cardinality(DOMAIN gaps)
                total == sum(gaps, DOMAIN gaps) * 10
            IN  /\ 2 * 3600 * n * reported <= 2 * total + 3600 * n
                /\ 2 * 3600 * n * reported >= 2 * total - 3600 * n

(* reported, in tenths of an hour, is the mean of gaps *)
ExactMean(reported, gaps) ==
    /\ \A i \in DOMAIN gaps : gaps[i] >= 0
    /\ IF DOMAIN gaps = {} THEN reported = 0
       ELSE 3600 * Cardinality(DOMAIN gaps) * reported = sum(gaps, DOMAIN gaps) * 10

C16_AverageIntervalRounded ==
    \A b \in BabyIds, days \in Days :
        LET schedule == GetBabySchedule(b, days)
        IN  /\ RoundedMean(schedule.avg_feeding_interval_hours,
                           Gaps(feedings, InLast(feedings, b, StartTimes(feedings), days), StartTimes(feedings)))
            /\ RoundedMean(schedule.avg_sleep_interval_hours,
                           Gaps(sleeps, InLast(sleeps, b, StartTimes(sleeps), days), StartTimes(sleeps)))
            /\ RoundedMean(schedule.avg_diaper_interval_hours,
                           Gaps(diapers, InLast(diapers, b, DiaperTimes(diapers), days), DiaperTimes(diapers)))

(* the claim as stated: the average is the mean itself *)
C16_AverageIntervalExact ==
    \A b \in BabyIds, days \in Days :
        LET schedule == GetBabySchedule(b, days)
        IN  /\ ExactMean(schedule.avg_feeding_interval_hours,
                         Gaps(feedings, InLast(feedings, b, StartTimes(feedings), days), StartTimes(feedings)))
            /\ ExactMean(schedule.avg_sleep_interval_hours,
                         Gaps(sleeps, InLast(sleeps, b, StartTimes(sleeps), days), StartTimes(sleeps)))
            /\ ExactMean(schedule.avg_diaper_interval_hours,
                         Gaps(diapers, InLast(diapers, b, DiaperTimes(diapers), days), DiaperTimes(diapers)))

(* baby 1 has two feedings of different times in the window of one day and
   only one of them in the window of no days *)
C16_Witness ==
    /\ \E i, j \in InLast(feedings, 1, StartTimes(feedings), 1) :
          feedings[i].start_time < feedings[j].start_time
    /\ Cardinality(InLast(feedings, 1, StartTimes(feedings), 0)) = 1
    /\ GetBabySchedule(1, 0).avg_feeding_interval_hours = 0

(* C17: once a start operation has returned, the get_last_* query of that
   kind returns the new session (found = true, with its start_time) as long
   as no later event of that kind is created, and get_last_* returns
   found = false exactly when the baby has no record of that kind.  Stated
   of feedings and sleeps: in the store a start leaves, and in every store
   for the baby's newest session, the one of the largest id. *)
ReturnsStart(results, start_time) ==
    \A res \in results : res.found /\ res.start_time = start_time

FoundIff(results, rows) ==
    \A res \in results : res.found <=> rows # {}

C17_LastIsNewest ==
    \A b \in BabyIds :
        /\ \A ft \in FeedingTypes :
              LET started == StartFeeding(b, ft)
              IN  started.err = "" =>
                      ReturnsStart(LastFeeding(started.db.feedings, b),
                                   Val(started.val).row.start_time)
        /\ LET started == StartSleep(b)
           IN  started.err = "" =>
                   ReturnsStart(LastSleep(started.db.sleeps, b),
                                Val(started.val).row.start_time)
        /\ Of(feedings, b) # {} =>
              ReturnsStart(LastFeeding(feedings, b), feedings[Max(Of(feedings, b))].start_time)
        /\ Of(sleeps, b) # {} =>
              ReturnsStart(LastSleep(sleeps, b), sleeps[Max(Of(sleeps, b))].start_time)
        /\ FoundIff(LastFeeding(feedings, b), Of(feedings, b))
        /\ FoundIff(LastSleep(sleeps, b), Of(sleeps, b))

(* baby 1 has two feedings, the second started later than the first; baby 2
   has none *)
C17_Witness ==
    /\ 2 \in babies
    /\ Of(feedings, 2) = {}
    /\ \E i, j \in Of(feedings, 1) :
          i < j /\ feedings[i].start_time < feedings[j].start_time

----------------------------------------------------------------------------
(* The predictor (src/src/predictor.py).  A score is counted in 5400ths of a
   point and a confidence in 10800ths, so that every score of the code is
   an integer. *)

HUNGER_THRESHOLD_SECONDS == 9000       \* HUNGER_THRESHOLD_HOURS = 2.5
DIAPER_THRESHOLD_SECONDS == 10800      \* DIAPER_THRESHOLD_HOURS = 3.0
ATTENTION_THRESHOLD_SECONDS == 5400    \* ATTENTION_THRESHOLD_MINUTES = 90

Points(n) == n * 5400

(* (time_since / threshold) * k, time_since and threshold in seconds *)
Ratio(time_since, threshold, k) == time_since * ((k * 5400) \div threshold)

(* _get_last_event_by_type(events, event_type) *)
LastEventByType(events, event_type) ==
    LET found == {i \in 1..Len(events) : events[i].type = event_type}
    IN  IF found = {} THEN None
        ELSE Some(events[CHOOSE i \in found : \A j \in found : i <= j])

(* now - last["time"], in seconds: now is datetime.utcnow() *)
TimeSince(time) == utcnow(now) - Seconds(time)

(* the hunger score with 0 for the 90 of a baby without a feeding *)
HungerScoreFromZero(last_feeding) ==
    IF ~IsNone(last_feeding)
    THEN LET time_since_feeding == TimeSince(Val(last_feeding).time)
         IN  IF time_since_feeding > HUNGER_THRESHOLD_SECONDS
             THEN Min(Points(100), Ratio(time_since_feeding, HUNGER_THRESHOLD_SECONDS, 70))
             ELSE Max({0, Ratio(time_since_feeding, HUNGER_THRESHOLD_SECONDS, 40)})
    ELSE 0

HungerScore(last_feeding) ==
    IF ~IsNone(last_feeding)
    THEN LET time_since_feeding == TimeSince(Val(last_feeding).time)
         IN  IF time_since_feeding > HUNGER_THRESHOLD_SECONDS
             THEN Min(Points(100), Ratio(time_since_feeding, HUNGER_THRESHOLD_SECONDS, 70))
             ELSE Max({0, Ratio(time_since_feeding, HUNGER_THRESHOLD_SECONDS, 40)})
    ELSE Points(90)

(* the diaper score without its floor at 0 *)
DiaperScoreNoFloor(last_diaper) ==
    IF ~IsNone(last_diaper)
    THEN LET time_since_diaper == TimeSince(Val(last_diaper).time)
         IN  IF time_since_diaper > DIAPER_THRESHOLD_SECONDS
             THEN Min(Points(90), Ratio(time_since_diaper, DIAPER_THRESHOLD_SECONDS, 70))
             ELSE Ratio(time_since_diaper, DIAPER_THRESHOLD_SECONDS, 30)
    ELSE Points(80)

DiaperScore(last_diaper) ==
    IF ~IsNone(last_diaper)
    THEN LET time_since_diaper == TimeSince(Val(last_diaper).time)
         IN  IF time_since_diaper > DIAPER_THRESHOLD_SECONDS
             THEN Min(Points(90), Ratio(time_since_diaper, DIAPER_THRESHOLD_SECONDS, 70))
             ELSE Max({0, Ratio(time_since_diaper, DIAPER_THRESHOLD_SECONDS, 30)})
    ELSE Points(80)

AttentionScore(last_sleep) ==
    IF ~IsNone(last_sleep)
    THEN LET sleep_data == Val(last_sleep).data.row
         IN  IF IsNone(sleep_data.end_time)
             THEN Points(10)
             ELSE LET time_awake == TimeSince(Val(sleep_data.end_time))
                  IN  IF time_awake > ATTENTION_THRESHOLD_SECONDS
                      THEN Min(Points(85), Ratio(time_awake, ATTENTION_THRESHOLD_SECONDS, 65))
                      ELSE Max({Points(10), Ratio(time_awake, ATTENTION_THRESHOLD_SECONDS, 50)})
    ELSE Points(50)

(* the keys of scores, in the order the dict holds them *)
ScoreOrder == <<"HUNGRY", "DIAPER", "ATTENTION">>

(* a max that keeps the last of the greatest keys *)
ArgMaxLast(scores) ==
    ScoreOrder[CHOOSE i \in 1..3 :
                  /\ \A j \in 1..3 : scores[ScoreOrder[j]] <= scores[ScoreOrder[i]]
                  /\ \A j \in (i + 1)..3 : scores[ScoreOrder[j]] < scores[ScoreOrder[i]]]

(* max(scores, key=scores.get): the first of the keys of the greatest score *)
ArgMax(scores) ==
    ScoreOrder[CHOOSE i \in 1..3 :
                  /\ \A j \in 1..3 : scores[ScoreOrder[j]] <= scores[ScoreOrder[i]]
                  /\ \A j \in 1..(i - 1) : scores[ScoreOrder[j]] < scores[ScoreOrder[i]]]

(* the confidence without its max(30, ...) *)
ConfidenceNoFloor(scores, predicted_reason) ==
    LET max_score == scores[predicted_reason]
        second_max == Max({scores[r] : r \in DOMAIN scores \ {predicted_reason}})
    IN  Min(2 * Points(95), 2 * (max_score - second_max) + max_score)

(* min(95, max(30, (max_score - second_max) + (max_score / 2))) *)
Confidence(scores, predicted_reason) ==
    LET max_score == scores[predicted_reason]
        second_max == Max({scores[r] : r \in DOMAIN scores \ {predicted_reason}})
    IN  Min(2 * Points(95), Max({2 * Points(30), 2 * (max_score - second_max) + max_score}))

(* the scores predict computes from the list get_recent_events returned *)
Scores(recent_events) ==
    [r \in {"HUNGRY", "DIAPER", "ATTENTION"} |->
        CASE r = "HUNGRY" -> HungerScore(LastEventByType(recent_events, "feeding"))
          [] r = "DIAPER" -> DiaperScore(LastEventByType(recent_events, "diaper"))
          [] r = "ATTENTION" -> AttentionScore(LastEventByType(recent_events, "sleep"))]

(* predict with the update of analyze_crying: the prediction is written to
   the baby's crying episodes *)
PredictAndStore(baby_id, recent_events) ==
    LET scores == Scores(recent_events)
        predicted_reason == ArgMax(scores)
        confidence == Confidence(scores, predicted_reason)
    IN  Return([predicted_reason |-> predicted_reason, confidence |-> confidence],
               [db EXCEPT !.cryings =
                   [i \in DOMAIN cryings |->
                       IF cryings[i].baby_id = baby_id
                       THEN [cryings[i] EXCEPT !.predicted_reason = Some(predicted_reason),
                                               !.prediction_confidence = Some(confidence)]
                       ELSE cryings[i]]])

(* CryingPredictor.predict(db, baby_id), get_recent_events having returned
   recent_events *)
Predict(baby_id, recent_events) ==
    LET scores == Scores(recent_events)
        predicted_reason == ArgMax(scores)
        confidence == Confidence(scores, predicted_reason)
    IN  Return([predicted_reason |-> predicted_reason, confidence |-> confidence], db)

(* the results predict_crying_reason(db, baby_id) can return: one for each
   list get_recent_events(db, baby_id, limit=20) can return *)
PredictCryingReason(baby_id) ==
    {Predict(baby_id, recent_events) : recent_events \in RecentEvents(baby_id, 20, 7)}

(* a query: it persists nothing *)
predict_crying_reason(b) == UNCHANGED vars

(* analyze_crying taking its prediction for the caller's answer: it fills
   in actual_reason too *)
AnalyzeCryingAsFeedback(crying_id, recent_events) ==
    LET prediction == Predict(cryings[crying_id].baby_id, recent_events).val
        crying == [cryings[crying_id] EXCEPT
                      !.predicted_reason = Some(prediction.predicted_reason),
                      !.prediction_confidence = Some(prediction.confidence),
                      !.actual_reason = Some(prediction.predicted_reason)]
    IN  Return(Some(prediction), [db EXCEPT !.cryings[crying_id] = crying])

(* CryingPredictor.analyze_crying(db, crying_id), get_recent_events
   having returned recent_events to its predict *)
AnalyzeCrying(crying_id, recent_events) ==
    LET prediction == Predict(cryings[crying_id].baby_id, recent_events).val
        crying == [cryings[crying_id] EXCEPT
                      !.predicted_reason = Some(prediction.predicted_reason),
                      !.prediction_confidence = Some(prediction.confidence)]
    IN  Return(Some(prediction), [db EXCEPT !.cryings[crying_id] = crying])

(* the results analyze_crying_episode(db, crying_id) can return: None when
   no crying episode has the id *)
AnalyzeCryingEpisode(crying_id) ==
    IF crying_id \in DOMAIN cryings
    THEN {AnalyzeCrying(crying_id, recent_events) :
             recent_events \in RecentEvents(cryings[crying_id].baby_id, 20, 7)}
    ELSE {Return(None, db)}

analyze_crying_episode(id) ==
    /\ \E call \in AnalyzeCryingEpisode(id) : Commit(call)
    /\ UNCHANGED <<now, sessions, user_data, conversation, openai>>

(* The stores predict is asked of: baby 1 with at most two feedings, one
   diaper change, one sleep and one crying episode, at the instant
   PredictNow.  Every row has the contents the calls can give it; an age is
   the number of ticks between the row's time and the instant. *)
PredictNow == 3100

(* a duration in ticks *)
Ticks(seconds) == seconds \div TickSeconds

(* the age of an event whose time datetime.utcnow() reads as k ticks back:
   the store holds Singapore readings *)
Ago(k) == k + Ticks(SGT)

(* the ages: the instant itself; 3 h, 30 min and 45 min, the ages of the
   first case of tests/test_predictor.py; ages that datetime.utcnow() reads
   as below, at and above each threshold; a feeding and a sleep older than
   the seven days of get_recent_events *)
FeedingAges == {0, Ticks(10800), Ago(25), Ago(45), Ago(50), Ago(70), timedelta(7) + 1}
DiaperAges == {0, Ticks(1800), Ago(40), Ago(54), Ago(60), Ago(70)}
SleepAges == {0, Ticks(2700), Ago(12), Ago(27), Ago(30), Ago(36), timedelta(7) + 1}

(* no feeding; one feeding in progress; one feeding that has ended; two
   feedings in progress *)
FeedingStores ==
    {<< >>}
    \cup {<<NewFeeding(1, "BOTTLE", PredictNow - a)>> : a \in FeedingAges}
    \cup {<<EndFeedingRow(NewFeeding(1, "BOTTLE", PredictNow - a[1]), None, PredictNow - a[2])>> :
             a \in {x \in FeedingAges \X FeedingAges : x[1] > x[2]}}
    \cup {<<NewFeeding(1, "BOTTLE", PredictNow - a[1]), NewFeeding(1, "BOTTLE", PredictNow - a[2])>> :
             a \in {x \in FeedingAges \X FeedingAges : x[1] >= x[2]}}

DiaperStores == {<< >>} \cup {<<NewDiaper(1, "WET", PredictNow - a)>> : a \in DiaperAges}

SleepStores ==
    {<< >>}
    \cup {<<NewSleep(1, PredictNow - a)>> : a \in SleepAges}
    \cup {<<EndSleepRow(NewSleep(1, PredictNow - a - 1), PredictNow - a)>> : a \in SleepAges}

CryingStores == {<< >>, <<NewCrying(1, PredictNow)>>}

InitPredict ==
    /\ babies = {1}
    /\ feedings \in FeedingStores
    /\ sleeps \in SleepStores
    /\ diapers \in DiaperStores
    /\ cryings \in CryingStores
    /\ now = PredictNow
    /\ sessions = NoSessions
    /\ user_data = NoUserData
    /\ conversation = NoConversation
    /\ openai = NoOpenai

(* the predictor at work on a store: a crying episode is analysed, and ended *)
NextPredict ==
    \/ \E b \in BabyIds : predict_crying_reason(b)
    \/ \E id \in RowIds : analyze_crying_episode(id)
    \/ \E id \in RowIds, r \in Opt(Reasons) : end_crying(id, r)
    \/ \E b \in BabyIds, limit \in Limits, days \in Days : get_recent_events(b, limit, days)

SpecPredict == InitPredict /\ [][NextPredict]_vars

(* C18: for all raw scores predict returns the confidence
   min(95, max(30, (max - secondMax) + max / 2)), max being the highest and
   secondMax the second-highest of the three scores; hence the confidence is
   within [30, 95]. *)
Highest(scores) == Max({scores[r] : r \in DOMAIN scores})

SecondHighest(scores) ==
    LET top == CHOOSE r \in DOMAIN scores : scores[r] = Highest(scores)
    IN  Max({scores[r] : r \in DOMAIN scores \ {top}})

(* (max - secondMax) + max / 2, in 10800ths *)
Raw(scores) == 2 * (Highest(scores) - SecondHighest(scores)) + Highest(scores)

Clamp(lo, hi, x) == IF x < lo THEN lo ELSE IF x > hi THEN hi ELSE x

C18_ConfidenceClamped ==
    \A b \in BabyIds :
        \A recent_events \in RecentEvents(b, 20, 7) :
            LET confidence == Predict(b, recent_events).val.confidence
            IN  /\ confidence = Clamp(2 * Points(30), 2 * Points(95), Raw(Scores(recent_events)))
                /\ confidence >= 2 * Points(30)
                /\ confidence <= 2 * Points(95)

(* for baby 1 the three scores are equal and the confidence is raised to 30;
   for baby 2, which has no events, it lies between the two limits *)
C18_Witness ==
    /\ \E recent_events \in RecentEvents(1, 20, 7) :
          /\ Raw(Scores(recent_events)) < 2 * Points(30)
          /\ \A r \in DOMAIN Scores(recent_events) :
                Scores(recent_events)[r] = Highest(Scores(recent_events))
          /\ Predict(1, recent_events).val.confidence = 2 * Points(30)
    /\ \E recent_events \in RecentEvents(2, 20, 7) :
          /\ Predict(2, recent_events).val.confidence > 2 * Points(30)
          /\ Predict(2, recent_events).val.confidence < 2 * Points(95)

(* C19: predict is deterministic and read-only: two calls for the same baby
   at the same instant on the same store return the same (reason,
   confidence), whatever order get_recent_events gives to events of equal
   time, and a call changes no stored record. *)
C19_DeterministicReadOnly ==
    \A b \in BabyIds :
        \A first \in PredictCryingReason(b), second \in PredictCryingReason(b) :
            /\ first.err = ""
            /\ first.val = second.val
            /\ first.db = db

(* baby 1 has two feedings of the same time, which get_recent_events can
   return in either order, and a crying episode *)
C19_Witness ==
    /\ Cardinality(RecentEvents(1, 20, 7)) > 1
    /\ Of(cryings, 1) # {}

(* C20: the predicted reason is a cause of the maximum raw score; when two
   or three causes share the maximum it is the earliest of them in the
   order HUNGRY, DIAPER, ATTENTION; it is never UNKNOWN. *)
C20_FirstOfMaximum ==
    \A b \in BabyIds :
        \A recent_events \in RecentEvents(b, 20, 7) :
            LET scores == Scores(recent_events)
                predicted == Predict(b, recent_events).val.predicted_reason
            IN  /\ predicted \in CryingReason \ {"UNKNOWN"}
                /\ scores[predicted] = Highest(scores)
                /\ predicted = "DIAPER" => scores["HUNGRY"] < Highest(scores)
                /\ predicted = "ATTENTION" =>
                      scores["HUNGRY"] < Highest(scores) /\ scores["DIAPER"] < Highest(scores)

(* baby 1 has no feeding and a diaper change old enough for the cap: HUNGRY
   and DIAPER share the maximum 90, and HUNGRY is returned *)
C20_Witness ==
    \E recent_events \in RecentEvents(1, 20, 7) :
        LET scores == Scores(recent_events)
        IN  /\ LastEventByType(recent_events, "feeding") = None
            /\ scores["HUNGRY"] = Points(90)
            /\ scores["DIAPER"] = Points(90)
            /\ scores["ATTENTION"] < Points(90)
            /\ Predict(1, recent_events).val.predicted_reason = "HUNGRY"

(* C21: whenever exactly one cause's elapsed time exceeds its threshold
   (more than 2.5 h since the last feeding, more than 3 h since the last
   diaper change, more than 90 min since the last sleep ended) and the other
   two elapsed times are below their thresholds, predict returns that cause
   with a confidence above 50. *)
Elapsed(time) == Seconds(now - time)

(* since the end of a feeding that has ended, since the start of one in
   progress *)
SinceFeeding(f) == Elapsed(IF Closed(f) THEN Val(f.end_time) ELSE f.start_time)

OnlyCause(b, recent_events, since_feeding, since_diaper, since_sleep) ==
    LET prediction == Predict(b, recent_events).val
        hungry == since_feeding > HUNGER_THRESHOLD_SECONDS
        diaper == since_diaper > DIAPER_THRESHOLD_SECONDS
        attention == since_sleep > ATTENTION_THRESHOLD_SECONDS
        Returns(reason) == /\ prediction.predicted_reason = reason
                           /\ prediction.confidence > 2 * Points(50)
    IN  /\ since_feeding # HUNGER_THRESHOLD_SECONDS
        /\ since_diaper # DIAPER_THRESHOLD_SECONDS
        /\ since_sleep # ATTENTION_THRESHOLD_SECONDS
        => /\ hungry /\ ~diaper /\ ~attention => Returns("HUNGRY")
           /\ ~hungry /\ diaper /\ ~attention => Returns("DIAPER")
           /\ ~hungry /\ ~diaper /\ attention => Returns("ATTENTION")

C21_OnlyCauseOverThreshold ==
    \A b \in BabyIds :
        \A recent_events \in RecentEvents(b, 20, 7) :
            \A f \in Latest(feedings, b, StartTimes(feedings)),
               d \in Latest(diapers, b, DiaperTimes(diapers)),
               s \in Latest(sleeps, b, StartTimes(sleeps)) :
                Closed(sleeps[s]) =>
                    OnlyCause(b, recent_events, SinceFeeding(feedings[f]),
                              Elapsed(diapers[d].time), Elapsed(Val(sleeps[s].end_time)))

(* the last feeding began 3 h ago, the last diaper change was 30 min ago,
   the last sleep ended 45 min ago: predict returns ATTENTION with the
   least confidence *)
C21_FedThreeHoursAgo ==
    /\ feedings = <<NewFeeding(1, "BOTTLE", now - Ticks(10800))>>
    /\ diapers = <<NewDiaper(1, "WET", now - Ticks(1800))>>
    /\ Len(sleeps) = 1 /\ sleeps[1].end_time = Some(now - Ticks(2700))
    /\ \A recent_events \in RecentEvents(1, 20, 7) :
          Predict(1, recent_events).val
              = [predicted_reason |-> "ATTENTION", confidence |-> 2 * Points(30)]


(* C22: when the baby has no feeding, no diaper change and no sleep, the
   raw scores are the defaults hunger 90, diaper 80, attention 50 and
   predict returns HUNGRY with confidence (90 - 80) + 90 / 2 = 55. *)
NoEvents(b) == Of(feedings, b) = {} /\ Of(diapers, b) = {} /\ Of(sleeps, b) = {}

C22_ColdStart ==
    \A b \in BabyIds :
        NoEvents(b) =>
            \A recent_events \in RecentEvents(b, 20, 7) :
                /\ Scores(recent_events)
                      = [r \in {"HUNGRY", "DIAPER", "ATTENTION"} |->
                            CASE r = "HUNGRY" -> Points(90)
                              [] r = "DIAPER" -> Points(80)
                              [] r = "ATTENTION" -> Points(50)]
                /\ Predict(b, recent_events).val
                      = [predicted_reason |-> "HUNGRY", confidence |-> 2 * Points(55)]

(* baby 1 cries and has no other event *)
C22_Witness == 1 \in babies /\ NoEvents(1) /\ Of(cryings, 1) # {}


(* C23: predict scores each cause from the baby's most recent event of that
   kind whenever the baby has an event of that kind, however old it is; the
   default is applied to a cause only when the baby has no event of that
   kind at all. *)
C23_ScoredFromMostRecent ==
    \A b \in BabyIds :
        \A recent_events \in RecentEvents(b, 20, 7) :
            /\ Of(feedings, b) # {} =>
                  \E i \in Latest(feedings, b, StartTimes(feedings)) :
                      LastEventByType(recent_events, "feeding")
                          = Some(Event("feeding", feedings[i].start_time, i, feedings[i]))
            /\ Of(diapers, b) # {} =>
                  \E i \in Latest(diapers, b, DiaperTimes(diapers)) :
                      LastEventByType(recent_events, "diaper")
                          = Some(Event("diaper", diapers[i].time, i, diapers[i]))
            /\ Of(sleeps, b) # {} =>
                  \E i \in Latest(sleeps, b, StartTimes(sleeps)) :
                      LastEventByType(recent_events, "sleep")
                          = Some(Event("sleep", sleeps[i].start_time, i, sleeps[i]))

(* the only feeding of baby 1 began more than seven days ago: the hunger
   score is the default 90 *)
C23_FedEightDaysAgo ==
    /\ Of(feedings, 1) = {1}
    /\ feedings[1].start_time < now - timedelta(7)
    /\ \A recent_events \in RecentEvents(1, 20, 7) :
          /\ LastEventByType(recent_events, "feeding") = None
          /\ Scores(recent_events)["HUNGRY"] = Points(90)


(* C24: the hunger score is computed from the time elapsed since the
   end_time of the most recent feeding when that feeding has ended, and
   since its start_time only when it is still in progress. *)
SinceEnd(last_feeding) ==
    LET feeding == last_feeding.data.row
    IN  [last_feeding EXCEPT !.time = IF Closed(feeding) THEN Val(feeding.end_time)
                                      ELSE feeding.start_time]

C24_HungerSinceEnd ==
    \A b \in BabyIds :
        \A recent_events \in RecentEvents(b, 20, 7) :
            LET last_feeding == LastEventByType(recent_events, "feeding")
            IN  ~IsNone(last_feeding) =>
                    Scores(recent_events)["HUNGRY"]
                        = HungerScore(Some(SinceEnd(Val(last_feeding))))

(* the feeding of baby 1 has ended, and the score from its start differs
   from the score from its end *)
C24_FeedingEnded ==
    /\ Of(feedings, 1) = {1}
    /\ Closed(feedings[1])
    /\ feedings[1].start_time < Val(feedings[1].end_time)
    /\ \E recent_events \in RecentEvents(1, 20, 7) :
          LET last_feeding == LastEventByType(recent_events, "feeding")
          IN  /\ ~IsNone(last_feeding)
              /\ Scores(recent_events)["HUNGRY"] = HungerScore(last_feeding)
              /\ HungerScore(last_feeding) > HungerScore(Some(SinceEnd(Val(last_feeding))))


(* C25: at an elapsed time exactly equal to a cause's threshold the upper
   segment of the ramp applies: the hunger score is 70 at exactly 2.5 h, the
   diaper score 70 at exactly 3.0 h and the attention score 65 at exactly
   90 min; strictly below the threshold the lower segment applies. *)
Ramp(score, time_since, threshold, at, below, least) ==
    /\ time_since = threshold => score = Points(at)
    /\ time_since < threshold => score = Max({least, Ratio(time_since, threshold, below)})

C25_UpperSegmentAtThreshold ==
    \A b \in BabyIds :
        \A recent_events \in RecentEvents(b, 20, 7) :
            LET last_feeding == LastEventByType(recent_events, "feeding")
                last_diaper == LastEventByType(recent_events, "diaper")
                last_sleep == LastEventByType(recent_events, "sleep")
                scores == Scores(recent_events)
            IN  /\ ~IsNone(last_feeding) =>
                      Ramp(scores["HUNGRY"], TimeSince(Val(last_feeding).time),
                           HUNGER_THRESHOLD_SECONDS, 70, 40, 0)
                /\ ~IsNone(last_diaper) =>
                      Ramp(scores["DIAPER"], TimeSince(Val(last_diaper).time),
                           DIAPER_THRESHOLD_SECONDS, 70, 30, 0)
                /\ ~IsNone(last_sleep) /\ Closed(Val(last_sleep).data.row) =>
                      Ramp(scores["ATTENTION"], TimeSince(Val(Val(last_sleep).data.row.end_time)),
                           ATTENTION_THRESHOLD_SECONDS, 65, 50, Points(10))

(* predict reads exactly 2.5 h since the feeding, 3.0 h since the diaper
   change and 90 min since the sleep ended, and the scores are 40, 30, 50 *)
C25_AtThresholds ==
    \E recent_events \in RecentEvents(1, 20, 7) :
        LET last_feeding == LastEventByType(recent_events, "feeding")
            last_diaper == LastEventByType(recent_events, "diaper")
            last_sleep == LastEventByType(recent_events, "sleep")
            scores == Scores(recent_events)
        IN  /\ ~IsNone(last_feeding) /\ ~IsNone(last_diaper) /\ ~IsNone(last_sleep)
            /\ Closed(Val(last_sleep).data.row)
            /\ TimeSince(Val(last_feeding).time) = HUNGER_THRESHOLD_SECONDS
            /\ TimeSince(Val(last_diaper).time) = DIAPER_THRESHOLD_SECONDS
            /\ TimeSince(Val(Val(last_sleep).data.row.end_time)) = ATTENTION_THRESHOLD_SECONDS
            /\ scores["HUNGRY"] = Points(40)
            /\ scores["DIAPER"] = Points(30)
            /\ scores["ATTENTION"] = Points(50)


(* C26: analyze_crying_episode on an existing crying episode stores the
   predicted reason and the confidence of predict on that record and changes
   nothing else: the episode's start_time, end_time and actual_reason, and
   every other record, are unchanged. *)
C26_AnalyzeStoresPrediction ==
    \A id \in DOMAIN cryings :
        \A call \in AnalyzeCryingEpisode(id) :
            /\ call.err = ""
            /\ \E predicted \in PredictCryingReason(cryings[id].baby_id) :
                  /\ call.val = Some(predicted.val)
                  /\ call.db.cryings[id].predicted_reason = Some(predicted.val.predicted_reason)
                  /\ call.db.cryings[id].prediction_confidence = Some(predicted.val.confidence)
            /\ call.db.cryings[id].baby_id = cryings[id].baby_id
            /\ call.db.cryings[id].start_time = cryings[id].start_time
            /\ call.db.cryings[id].end_time = cryings[id].end_time
            /\ call.db.cryings[id].actual_reason = cryings[id].actual_reason
            /\ DOMAIN call.db.cryings = DOMAIN cryings
            /\ \A other \in DOMAIN cryings \ {id} : call.db.cryings[other] = cryings[other]
            /\ call.db.babies = babies
            /\ call.db.feedings = feedings
            /\ call.db.sleeps = sleeps
            /\ call.db.diapers = diapers

(* the crying episode of baby 1, which has been fed and changed, carries a
   prediction *)
C26_Witness ==
    /\ 1 \in DOMAIN cryings
    /\ Open(cryings[1])
    /\ ~IsNone(cryings[1].predicted_reason)
    /\ ~IsNone(cryings[1].prediction_confidence)
    /\ Of(feedings, 1) # {} /\ Of(diapers, 1) # {}


(* C27: analyze fails with NotFound, and modifies no record, when there is
   no crying episode in progress: both when the crying id does not exist and
   when the episode it names has already ended. *)
C27_NotInProgressNotFound ==
    \A id \in RowIds :
        id \notin DOMAIN cryings \/ Closed(cryings[id]) =>
            \A call \in AnalyzeCryingEpisode(id) : call = Raise("NotFound")

(* the crying episode of baby 1 has ended: analyze_crying_episode succeeds
   and writes a prediction to it *)
C27_EndedEpisodeAnalysed ==
    /\ 1 \in DOMAIN cryings
    /\ Closed(cryings[1])
    /\ IsNone(cryings[1].predicted_reason)
    /\ \A call \in AnalyzeCryingEpisode(1) :
          /\ call.err = ""
          /\ ~IsNone(call.db.cryings[1].predicted_reason)
          /\ call.db # db


(* C28: every timestamp difference the predictor computes is taken between
   two instants of the same zone: for an event the store recorded at instant
   t and a prediction made at instant t' >= t, the elapsed time used for
   scoring is t' - t, so it is never negative and never shifted by the
   offset between UTC and Singapore time. *)
C28_ElapsedInOneZone ==
    \A b \in BabyIds :
        \A recent_events \in RecentEvents(b, 20, 7) :
            \A i \in 1..Len(recent_events) :
                /\ TimeSince(recent_events[i].time) = Seconds(now - recent_events[i].time)
                /\ TimeSince(recent_events[i].time) >= 0

(* log_diaper_change(baby 1) at this very instant: predict reads minus eight
   hours since the change *)
C28_ChangedJustNow ==
    /\ Of(diapers, 1) = {1}
    /\ diapers[1].time = now
    /\ \A recent_events \in RecentEvents(1, 20, 7) :
          /\ ~IsNone(LastEventByType(recent_events, "diaper"))
          /\ TimeSince(Val(LastEventByType(recent_events, "diaper")).time) = 0 - SGT
          /\ Scores(recent_events)["DIAPER"] = 0


----------------------------------------------------------------------------
(* The front end (src/src/bot.py): the handler of the amount message *)

(* feeding_amount: the amount the caregiver typed is written to the feeding
   whose id the conversation holds in user_data["feeding_id"] *)
FeedingAmount(feeding_id, amount) ==
    IF feeding_id \in DOMAIN feedings
    THEN Return(None, [db EXCEPT !.feedings[feeding_id].amount = Some(amount)])
    ELSE Return(None, db)

feeding_amount(id, amount) ==
    /\ Commit(FeedingAmount(id, amount))
    /\ UNCHANGED <<now, sessions, user_data, conversation, openai>>

(* the store's calls, the predictor's analysis and the amount message *)
NextLifecycle ==
    \/ Tick
    \/ create_baby
    \/ \E b \in BabyIds : delete_baby(b)
    \/ \E b \in BabyIds, ft \in FeedingTypes : start_feeding(b, ft)
    \/ \E id \in RowIds, amount \in Opt(Amounts) : end_feeding(id, amount)
    \/ \E b \in BabyIds : start_sleep(b)
    \/ \E id \in RowIds : end_sleep(id)
    \/ \E b \in BabyIds, dt \in DiaperTypes : log_diaper_change(b, dt)
    \/ \E b \in BabyIds : start_crying(b)
    \/ \E id \in RowIds, r \in Opt(Reasons) : end_crying(id, r)
    \/ \E id \in RowIds : analyze_crying_episode(id)
    \/ \E id \in RowIds, amount \in Amounts : feeding_amount(id, amount)

SpecLifecycle == Init /\ [][NextLifecycle]_vars

(* C29: a diaper record is never changed, a session that has ended is never
   changed again: none of its attributes (amount, actual_reason,
   predicted_reason, prediction_confidence, start_time) is changed by any
   later operation of the store, the predictor or the front end; and no
   event is removed except by deleting its baby. *)
Kept(t, tNew) ==
    \A id \in DOMAIN t : id \in DOMAIN tNew \/ t[id].baby_id \notin babies'

Frozen(t, tNew) ==
    \A id \in DOMAIN t \cap DOMAIN tNew : Closed(t[id]) => tNew[id] = t[id]

C29_Step ==
    /\ Kept(feedings, feedings') /\ Kept(sleeps, sleeps')
    /\ Kept(diapers, diapers') /\ Kept(cryings, cryings')
    /\ Frozen(feedings, feedings') /\ Frozen(sleeps, sleeps') /\ Frozen(cryings, cryings')
    /\ \A id \in DOMAIN diapers \cap DOMAIN diapers' : diapers'[id] = diapers[id]

C29_ClosedIsFrozen == [][C29_Step]_vars

(* a bottle feeding has ended without an amount, the front end asks for the
   amount, and the amount message changes the closed record *)
C29_AmountAfterEnd ==
    /\ 1 \in DOMAIN feedings
    /\ Closed(feedings[1])
    /\ IsNone(feedings[1].amount)
    /\ \E amount \in Amounts :
          FeedingAmount(1, amount).db.feedings[1] = [feedings[1] EXCEPT !.amount = Some(amount)]


----------------------------------------------------------------------------
(* Concurrent end calls.  end_feeding, end_sleep and end_crying load the row
   (db.query(...).first()), test "not row.end_time" on the object they
   loaded, assign to it and commit; each caller has its own session, and
   another caller's commit can come between the load and the commit. *)

Kinds == {"feeding", "sleep", "crying"}

Table(kind) ==
    CASE kind = "feeding" -> feedings
      [] kind = "sleep" -> sleeps
      [] kind = "crying" -> cryings

(* the second argument of the end call: amount, none, actual_reason *)
ClosingArgs(kind) ==
    CASE kind = "feeding" -> Opt(Amounts)
      [] kind = "sleep" -> {None}
      [] kind = "crying" -> Opt(Reasons)

(* the object after the body of the end call *)
Ended(kind, row, arg, t) ==
    CASE kind = "feeding" -> EndFeedingRow(row, arg, t)
      [] kind = "sleep" -> EndSleepRow(row, t)
      [] kind = "crying" -> EndCryingRow(row, arg, t)

(* the UPDATE db.commit() flushes: the columns whose value on the object
   differs from the value loaded are written to the stored row *)
Flush(stored, loaded, changed) ==
    [col \in DOMAIN stored |->
        IF changed[col] # loaded[col] THEN changed[col] ELSE stored[col]]

(* db.query(T).filter(T.id == id).first() of caller c *)
end_query(c, kind, id, arg) ==
    /\ IsNone(sessions[c])
    /\ sessions' = [sessions EXCEPT ![c] =
                       Some([kind |-> kind, id |-> id, arg |-> arg,
                             row |-> IF id \in DOMAIN Table(kind)
                                     THEN Some(Table(kind)[id]) ELSE None])]
    /\ UNCHANGED <<babies, feedings, sleeps, diapers, cryings, now,
                 user_data, conversation, openai>>

(* the rest of the end call of caller c: the test, the assignments, the
   commit *)
Written(call, kind, t) ==
    IF call.kind = kind /\ ~IsNone(call.row)
    THEN [t EXCEPT ![call.id] =
             Flush(@, Val(call.row), Ended(kind, Val(call.row), call.arg, get_sgt_now))]
    ELSE t

end_commit(c) ==
    /\ ~IsNone(sessions[c])
    /\ feedings' = Written(Val(sessions[c]), "feeding", feedings)
    /\ sleeps' = Written(Val(sessions[c]), "sleep", sleeps)
    /\ cryings' = Written(Val(sessions[c]), "crying", cryings)
    /\ sessions' = [sessions EXCEPT ![c] = None]
    /\ UNCHANGED <<babies, diapers, now, user_data, conversation, openai>>

NextRace ==
    \/ Tick
    \/ create_baby
    \/ \E b \in BabyIds, ft \in FeedingTypes : start_feeding(b, ft)
    \/ \E b \in BabyIds : start_sleep(b)
    \/ \E b \in BabyIds : start_crying(b)
    \/ \E c \in Callers, kind \in Kinds, id \in RowIds :
          \E arg \in ClosingArgs(kind) : end_query(c, kind, id, arg)
    \/ \E c \in Callers : end_commit(c)

SpecRace == Init /\ [][NextRace]_vars

(* C30: for any interleaving of two concurrent end calls on the same
   session in progress, exactly one call performs the transition to ended:
   the stored end_time and closing attributes are those of a single call,
   and the other call changes nothing.  Stated of the step in which a
   caller finishes its end call on a session that has already ended. *)
C30_Step ==
    \A c \in Callers :
        /\ ~IsNone(sessions[c])
        /\ IsNone(sessions'[c])
        /\ Val(sessions[c]).id \in DOMAIN Table(Val(sessions[c]).kind)
        /\ Closed(Table(Val(sessions[c]).kind)[Val(sessions[c]).id])
        => UNCHANGED <<babies, feedings, sleeps, diapers, cryings>>

C30_OneCallCloses == [][C30_Step]_vars

(* both callers have loaded feeding 1 while it was in progress; one has
   committed, with an amount, and the other, without one, is about to *)
C30_SecondCallAboutToCommit ==
    /\ 1 \in DOMAIN feedings
    /\ Closed(feedings[1])
    /\ feedings[1].amount # None
    /\ IsNone(sessions[1])
    /\ ~IsNone(sessions[2])
    /\ Val(sessions[2]).kind = "feeding" /\ Val(sessions[2]).id = 1
    /\ Val(sessions[2]).arg = None
    /\ Val(sessions[2]).row = Some(NewFeeding(feedings[1].baby_id, feedings[1].type,
                                              feedings[1].start_time))
    /\ now > Val(feedings[1].end_time)


(* C35: when the baby's most recent sleep is still in progress the
   attention score is exactly 10, whatever the sleep's start time; when it
   has ended the attention score is computed from the time since its
   end_time and lies in [10, 85]. *)
C35_AttentionFromLastSleep ==
    \A b \in BabyIds :
        \A recent_events \in RecentEvents(b, 20, 7) :
            \A s \in Latest(sleeps, b, StartTimes(sleeps)) :
                LET attention == Scores(recent_events)["ATTENTION"]
                    last_sleep == Event("sleep", sleeps[s].start_time, s, sleeps[s])
                IN  /\ Open(sleeps[s]) => attention = Points(10)
                    /\ Closed(sleeps[s]) =>
                          /\ attention = AttentionScore(Some(last_sleep))
                          /\ attention >= Points(10)
                          /\ attention <= Points(85)

(* the sleep of baby 1 began more than seven days ago and is still in
   progress: the attention score is the default 50 *)
C35_AsleepForEightDays ==
    /\ Of(sleeps, 1) = {1}
    /\ Open(sleeps[1])
    /\ sleeps[1].start_time < now - timedelta(7)
    /\ \A recent_events \in RecentEvents(1, 20, 7) :
          Scores(recent_events)["ATTENTION"] = Points(50)


(* C36: for every store content and every prediction instant, the hunger
   score lies in [0, 100], the diaper score in [0, 90] and the attention
   score in [10, 85]. *)
C36_ScoresInRange ==
    \A b \in BabyIds :
        \A recent_events \in RecentEvents(b, 20, 7) :
            LET scores == Scores(recent_events)
            IN  /\ scores["HUNGRY"] >= Points(0)
                /\ scores["HUNGRY"] <= Points(100)
                /\ scores["DIAPER"] >= Points(0)
                /\ scores["DIAPER"] <= Points(90)
                /\ scores["ATTENTION"] >= Points(10)
                /\ scores["ATTENTION"] <= Points(85)

(* the last feeding and the last change of baby 1 are later than the
   predictor's clock (both scores are floored at 0), and its last sleep
   ended long ago (the attention score is capped at 85) *)
C36_FlooredAndCapped ==
    /\ \E f \in Of(feedings, 1) : TimeSince(feedings[f].start_time) < 0
    /\ \E d \in Of(diapers, 1) : TimeSince(diapers[d].time) < 0
    /\ \A recent_events \in RecentEvents(1, 20, 7) :
          /\ Scores(recent_events)["HUNGRY"] = Points(0)
          /\ Scores(recent_events)["DIAPER"] = Points(0)
          /\ Scores(recent_events)["ATTENTION"] = Points(85)


(* C37: in every reachable state a crying episode has an actual_reason only
   if it has ended: actual_reason is set only by end_crying, in the same step
   that sets end_time, and is never set by predict or analyze. *)
ReasonSet(id) ==
    /\ ~IsNone(cryings'[id].actual_reason)
    /\ id \in DOMAIN cryings => cryings'[id].actual_reason # cryings[id].actual_reason

C37_Step ==
    \A id \in DOMAIN cryings' :
        /\ ~IsNone(cryings'[id].actual_reason) => Closed(cryings'[id])
        /\ ReasonSet(id) =>
              /\ id \in DOMAIN cryings
              /\ Open(cryings[id])
              /\ Closed(cryings'[id])
              /\ \E r \in Reasons : EndCrying(id, Some(r)).db = db'

C37_ReasonOnlyWhenEnded == [][C37_Step]_vars

(* episode 1 has been analysed and then ended with the caregiver's reason *)
C37_EndedWithReason ==
    /\ 1 \in DOMAIN cryings
    /\ Closed(cryings[1])
    /\ ~IsNone(cryings[1].predicted_reason)
    /\ cryings[1].actual_reason = Some("HUNGRY")


(* C38: get_recent_events(baby, limit) returns exactly the limit events with
   the greatest anchor times among all of the baby's events of the four
   kinds inside the lookback window, all of them when there are fewer:
   cutting each kind to the limit before the merge drops no event that
   belongs in the result. *)
AllEvents(b, since) ==
    FeedingEvents(b, since) \cup SleepEvents(b, since)
        \cup DiaperEvents(b, since) \cup CryingEvents(b, since)

C38_LatestOfAllKinds ==
    \A b \in BabyIds, limit \in Limits, days \in Days \cup {7} :
        \A r \in RecentEvents(b, limit, days) :
            LET all == AllEvents(b, get_sgt_now - timedelta(days))
                got == {r[i] : i \in 1..Len(r)}
            IN  /\ got \subseteq all
                /\ Cardinality(got) = Len(r)
                /\ Len(r) = Min(limit, Cardinality(all))
                /\ \A e \in all \ got, g \in got : e.time <= g.time

(* baby 1 has two feedings in the window of one day, more than the limit 1,
   and a sleep that began after one of them and before the other: the cut of
   the feedings to one row drops the earlier feeding, and the result is the
   later one *)
C38_MoreThanLimitOfOneKind ==
    LET all == AllEvents(1, get_sgt_now - timedelta(1))
    IN  /\ Cardinality(FeedingEvents(1, get_sgt_now - timedelta(1))) = 2
        /\ \E f \in all, s \in all, g \in all :
              /\ f.type = "feeding" /\ s.type = "sleep" /\ g.type = "feeding"
              /\ f.time < s.time /\ s.time < g.time
              /\ \A r \in RecentEvents(1, 1, 1) : r = <<g>>
              /\ \A r \in RecentEvents(1, 2, 1) : r = <<g, s>>


----------------------------------------------------------------------------
(* Natural-language queries (src/src/nlp_handler.py).  A text is the
   sequence of its characters; a dict is a function of its keys, a JSON null
   None and a JSON string Some of it. *)

QueryIntent ==
    [LAST_FEEDING |-> "last_feeding", LAST_SLEEP |-> "last_sleep",
     LAST_DIAPER |-> "last_diaper", LAST_CRYING |-> "last_crying",
     FEEDING_COUNT |-> "feeding_count", SLEEP_DURATION |-> "sleep_duration",
     DIAPER_COUNT |-> "diaper_count", CRYING_EPISODES |-> "crying_episodes",
     BABY_SCHEDULE |-> "baby_schedule", UNKNOWN |-> "unknown"]

(* str.lower() on the letters *)
lower(text) ==
    LET LowerCase ==
            [A |-> "a", B |-> "b", C |-> "c", D |-> "d", E |-> "e", F |-> "f", G |-> "g",
             H |-> "h", I |-> "i", J |-> "j", K |-> "k", L |-> "l", M |-> "m", N |-> "n",
             O |-> "o", P |-> "p", Q |-> "q", R |-> "r", S |-> "s", T |-> "t", U |-> "u",
             V |-> "v", W |-> "w", X |-> "x", Y |-> "y", Z |-> "z"]
    IN  [i \in 1..Len(text) |->
            IF text[i] \in DOMAIN LowerCase THEN LowerCase[text[i]] ELSE text[i]]

(* phrase in query *)
In(phrase, query) ==
    \E i \in 1..(Len(query) - Len(phrase) + 1) :
        \A k \in 1..Len(phrase) : query[i + k - 1] = phrase[k]

(* any(phrase in query for phrase in [...]) *)
AnyPhrase(phrases, query) == \E phrase \in phrases : In(phrase, query)

(* the rules of classify_query_simple in their order: the intent and the
   phrases that give it *)
Rules ==
    <<<<QueryIntent.LAST_FEEDING,
       {<<"l", "a", "s", "t", " ", "f", "e", "e", "d", "i", "n", "g">>,
        <<"r", "e", "c", "e", "n", "t", " ", "f", "e", "e", "d", "i", "n", "g">>,
        <<"w", "h", "e", "n", " ", "f", "e", "e", "d", "i", "n", "g">>,
        <<"l", "a", "s", "t", " ", "f", "e", "e", "d">>}>>,
      <<QueryIntent.LAST_SLEEP,
       {<<"l", "a", "s", "t", " ", "s", "l", "e", "e", "p">>,
        <<"r", "e", "c", "e", "n", "t", " ", "s", "l", "e", "e", "p">>,
        <<"w", "h", "e", "n", " ", "s", "l", "e", "e", "p">>,
        <<"l", "a", "s", "t", " ", "s", "l", "e", "p", "t">>}>>,
      <<QueryIntent.LAST_DIAPER,
       {<<"l", "a", "s", "t", " ", "d", "i", "a", "p", "e", "r">>,
        <<"r", "e", "c", "e", "n", "t", " ", "d", "i", "a", "p", "e", "r">>,
        <<"w", "h", "e", "n", " ", "d", "i", "a", "p", "e", "r">>,
        <<"l", "a", "s", "t", " ", "c", "h", "a", "n", "g", "e">>}>>,
      <<QueryIntent.LAST_CRYING,
       {<<"l", "a", "s", "t", " ", "c", "r", "y", "i", "n", "g">>,
        <<"r", "e", "c", "e", "n", "t", " ", "c", "r", "y", "i", "n", "g">>,
        <<"w", "h", "e", "n", " ", "c", "r", "y">>,
        <<"l", "a", "s", "t", " ", "c", "r", "i", "e", "d">>}>>,
      <<QueryIntent.FEEDING_COUNT,
       {<<"h", "o", "w", " ", "m", "a", "n", "y", " ", "f", "e", "e", "d", "i", "n", "g">>,
        <<"f", "e", "e", "d", "i", "n", "g", " ", "c", "o", "u", "n", "t">>,
        <<"n", "u", "m", "b", "e", "r", " ", "o", "f", " ", "f", "e", "e", "d", "i", "n", "g">>,
        <<"f", "e", "e", "d", "i", "n", "g", "s">>}>>,
      <<QueryIntent.SLEEP_DURATION,
       {<<"s", "l", "e", "e", "p", " ", "d", "u", "r", "a", "t", "i", "o", "n">>,
        <<"h", "o", "w", " ", "l", "o", "n", "g", " ", "s", "l", "e", "e", "p">>,
        <<"s", "l", "e", "e", "p", " ", "t", "i", "m", "e">>}>>,
      <<QueryIntent.DIAPER_COUNT,
       {<<"d", "i", "a", "p", "e", "r", " ", "c", "o", "u", "n", "t">>,
        <<"h", "o", "w", " ", "m", "a", "n", "y", " ", "d", "i", "a", "p", "e", "r">>,
        <<"n", "u", "m", "b", "e", "r", " ", "o", "f", " ", "d", "i", "a", "p", "e", "r">>}>>,
      <<QueryIntent.CRYING_EPISODES,
       {<<"c", "r", "y", "i", "n", "g", " ", "e", "p", "i", "s", "o", "d", "e">>,
        <<"h", "o", "w", " ", "m", "a", "n", "y", " ", "c", "r", "y">>,
        <<"n", "u", "m", "b", "e", "r", " ", "o", "f", " ", "c", "r", "y">>}>>,
      <<QueryIntent.BABY_SCHEDULE,
       {<<"s", "c", "h", "e", "d", "u", "l", "e">>,
        <<"r", "o", "u", "t", "i", "n", "e">>,
        <<"p", "a", "t", "t", "e", "r", "n">>}>>>>

EmptyDict == << >>

(* if any(...): return ... elif any(...): return ... *)
RECURSIVE FirstRule(_, _)
FirstRule(query, rules) ==
    IF rules = << >> THEN QueryIntent.UNKNOWN
    ELSE IF AnyPhrase(Head(rules)[2], query) THEN Head(rules)[1]
    ELSE FirstRule(query, Tail(rules))

ClassifyQuerySimple(query_text) == <<FirstRule(lower(query_text), Rules), EmptyDict>>

(* the query texts *)
WhenWasTheLastFeeding == <<"W", "h", "e", "n", " ", "w", "a", "s", " ", "t", "h", "e", " ", "l", "a", "s", "t", " ", "f", "e", "e", "d", "i", "n", "g", "?">>
IsSheHungry == <<"I", "s", " ", "s", "h", "e", " ", "h", "u", "n", "g", "r", "y", "?">>
DidHeNapToday == <<"D", "i", "d", " ", "h", "e", " ", "n", "a", "p", " ", "t", "o", "d", "a", "y", "?">>
LastChange == <<"L", "A", "S", "T", " ", "C", "H", "A", "N", "G", "E">>

QueryTexts == {WhenWasTheLastFeeding, IsSheHungry, DidHeNapToday, LastChange}


(* what openai.chat.completions.create does with a request: it raises, or
   it returns a message whose content is not JSON, or one whose content is
   the JSON text of result (json.loads gives the dict back) *)
Intents ==
    {QueryIntent.LAST_FEEDING, QueryIntent.LAST_SLEEP, QueryIntent.LAST_DIAPER,
     QueryIntent.LAST_CRYING, QueryIntent.FEEDING_COUNT, QueryIntent.SLEEP_DURATION,
     QueryIntent.DIAPER_COUNT, QueryIntent.CRYING_EPISODES, QueryIntent.BABY_SCHEDULE,
     QueryIntent.UNKNOWN, "greeting"}

Parameters ==
    {EmptyDict,
     [time_period |-> Some("today"), baby_name |-> None, count |-> None],
     [baby_id |-> 2]}

Responses ==
    {[raises |-> TRUE, json |-> FALSE, result |-> EmptyDict],
     [raises |-> FALSE, json |-> FALSE, result |-> EmptyDict]}
    \cup {[raises |-> FALSE, json |-> TRUE, result |-> [intent |-> i, parameters |-> p]] :
             i \in Intents, p \in Parameters}
    \cup {[raises |-> FALSE, json |-> TRUE, result |-> [intent |-> QueryIntent.LAST_SLEEP]],
          [raises |-> FALSE, json |-> TRUE, result |-> [parameters |-> EmptyDict]]}

(* the request: messages[1] is {"role": "user", "content": query_text} *)
Request(query_text) == [model |-> "gpt-3.5-turbo", user |-> query_text]

(* classify_query: what it returns and the requests it makes *)
ClassifyQuery(query_text, response) ==
    LET simple_intent == ClassifyQuerySimple(query_text)
    IN  IF simple_intent[1] # QueryIntent.UNKNOWN
        THEN [val |-> simple_intent, calls |-> << >>]
        ELSE IF ~openai.api_key
        THEN [val |-> simple_intent, calls |-> << >>]
        ELSE IF response.raises \/ ~response.json \/ "intent" \notin DOMAIN response.result
        THEN [val |-> ClassifyQuerySimple(query_text), calls |-> <<Request(query_text)>>]
        ELSE [val |-> <<response.result.intent,
                        IF "parameters" \in DOMAIN response.result
                        THEN response.result.parameters ELSE EmptyDict>>,
              calls |-> <<Request(query_text)>>]

DbFunction(intent) ==
    IF intent = QueryIntent.LAST_FEEDING THEN "get_last_feeding"
    ELSE IF intent = QueryIntent.LAST_SLEEP THEN "get_last_sleep"
    ELSE IF intent = QueryIntent.LAST_DIAPER THEN "get_last_diaper"
    ELSE IF intent = QueryIntent.LAST_CRYING THEN "get_last_crying"
    ELSE IF intent = QueryIntent.FEEDING_COUNT THEN "get_feeding_count"
    ELSE IF intent = QueryIntent.SLEEP_DURATION THEN "get_sleep_duration"
    ELSE IF intent = QueryIntent.DIAPER_COUNT THEN "get_diaper_count"
    ELSE IF intent = QueryIntent.CRYING_EPISODES THEN "get_crying_episodes"
    ELSE IF intent = QueryIntent.BABY_SCHEDULE THEN "get_baby_schedule"
    ELSE "unknown"

(* a process_query that sets baby_id whatever the parameters hold *)
ProcessQueryOverwrites(query_text, current_baby_id, response) ==
    LET call == ClassifyQuery(query_text, response)
        intent == call.val[1]
        parameters == call.val[2]
    IN  [val |-> <<DbFunction(intent), intent,
                   IF ~IsNone(current_baby_id)
                   THEN ("baby_id" :> Val(current_baby_id)) @@ parameters
                   ELSE parameters>>,
         calls |-> call.calls]

ProcessQuery(query_text, current_baby_id, response) ==
    LET call == ClassifyQuery(query_text, response)
        intent == call.val[1]
        parameters == call.val[2]
    IN  [val |-> <<DbFunction(intent), intent,
                   IF "baby_id" \notin DOMAIN parameters /\ ~IsNone(current_baby_id)
                   THEN ("baby_id" :> Val(current_baby_id)) @@ parameters
                   ELSE parameters>>,
         calls |-> call.calls]

(* datetime(d.year, d.month, d.day), in seconds *)
Date(d) == (d \div 86400) * 86400

(* d.weekday(), Monday 0: tick 0 of the clock is 00:00 of a Monday *)
weekday(d) == (d \div 86400) % 7

TimePeriods ==
    {"today", "this day", "yesterday", "last day", "this week", "current week",
     "last week", "previous week", "last month"}

(* parse_time_period: (start_time, end_time) *)
ParseTimePeriod(time_period) ==
    LET utc_now == utcnow(now)
    IN  IF time_period \in {"today", "this day"}
        THEN <<Date(utc_now), utc_now>>
        ELSE IF time_period \in {"yesterday", "last day"}
        THEN <<Date(utc_now - 86400), Date(utc_now)>>
        ELSE IF time_period \in {"this week", "current week"}
        THEN <<Date(utc_now - weekday(utc_now) * 86400), utc_now>>
        ELSE IF time_period \in {"last week", "previous week"}
        THEN LET start_of_this_week == utc_now - weekday(utc_now) * 86400
             IN  <<start_of_this_week - 7 * 86400, start_of_this_week>>
        ELSE <<Date(utc_now), utc_now>>

(* the requests the model lets the classifier receive *)
MaxCalls == 2

classify_query(query_text, response) ==
    LET call == ClassifyQuery(query_text, response)
    IN  /\ Len(openai.calls) + Len(call.calls) <= MaxCalls
        /\ openai' = [openai EXCEPT !.calls = @ \o call.calls]
        /\ UNCHANGED <<babies, feedings, sleeps, diapers, cryings, now, sessions,
                       user_data, conversation>>

process_query(query_text, current_baby_id, response) ==
    LET call == ProcessQuery(query_text, current_baby_id, response)
    IN  /\ Len(openai.calls) + Len(call.calls) <= MaxCalls
        /\ openai' = [openai EXCEPT !.calls = @ \o call.calls]
        /\ UNCHANGED <<babies, feedings, sleeps, diapers, cryings, now, sessions,
                       user_data, conversation>>

parse_time_period(time_period) == UNCHANGED vars

(* the instants of the queries: each day of a week and the next Monday, at
   00:00 of the clock and at 00:00 and a tick past 00:00 of datetime.utcnow() *)
NlpInstants ==
    {d * DayTicks + h : d \in 1..8, h \in {0, Ticks(SGT), Ticks(SGT) + 1}}

InitNlp ==
    /\ babies = {}
    /\ feedings = << >>
    /\ sleeps = << >>
    /\ diapers = << >>
    /\ cryings = << >>
    /\ now \in NlpInstants
    /\ sessions = NoSessions
    /\ user_data = NoUserData
    /\ conversation = NoConversation
    /\ openai \in {[api_key |-> k, calls |-> << >>] : k \in BOOLEAN}

NextNlp ==
    \/ \E query_text \in QueryTexts, response \in Responses :
          classify_query(query_text, response)
    \/ \E query_text \in QueryTexts, current_baby_id \in Opt(BabyIds), response \in Responses :
          process_query(query_text, current_baby_id, response)
    \/ \E time_period \in TimePeriods : parse_time_period(time_period)

SpecNlp == InitNlp /\ [][NextNlp]_vars

(* C33: when the external classifier is available and returns a well-formed
   result, classify_query calls it exactly once with the user's query text
   and returns the intent and the parameters that the classifier produced,
   for every query text, "When was the last feeding?" among them. *)
WellFormed(response) ==
    /\ ~response.raises
    /\ response.json
    /\ DOMAIN response.result = {"intent", "parameters"}

C33_ClassifierAskedOnce ==
    \A query_text \in QueryTexts, response \in Responses :
        openai.api_key /\ WellFormed(response) =>
            LET call == ClassifyQuery(query_text, response)
            IN  /\ Len(call.calls) = 1
                /\ call.calls[1].user = query_text
                /\ call.val = <<response.result.intent, response.result.parameters>>

(* the case of tests/test_nlp.py: the classifier has its key and would
   answer last_feeding with the time period today, and classify_query
   returns the rules' answer without a request *)
C33_AnsweredByRules ==
    LET response == [raises |-> FALSE, json |-> TRUE,
                     result |-> [intent |-> "last_feeding",
                                 parameters |-> [time_period |-> Some("today"),
                                                 baby_name |-> None, count |-> None]]]
        call == ClassifyQuery(WhenWasTheLastFeeding, response)
    IN  /\ openai.api_key
        /\ Len(openai.calls) = 1
        /\ call.calls = << >>
        /\ call.val = <<"last_feeding", EmptyDict>>


(* C34: process_query maps each of the nine known intents to its own query
   function name, maps every other intent to "unknown", and adds baby_id =
   the current baby to the parameters only when the parameters do not
   already hold a baby_id. *)
QueryFunctions ==
    [last_feeding |-> "get_last_feeding", last_sleep |-> "get_last_sleep",
     last_diaper |-> "get_last_diaper", last_crying |-> "get_last_crying",
     feeding_count |-> "get_feeding_count", sleep_duration |-> "get_sleep_duration",
     diaper_count |-> "get_diaper_count", crying_episodes |-> "get_crying_episodes",
     baby_schedule |-> "get_baby_schedule"]

C34_IntentToFunction ==
    /\ Cardinality({QueryFunctions[i] : i \in DOMAIN QueryFunctions}) = 9
    /\ \A query_text \in QueryTexts, current_baby_id \in Opt(BabyIds), response \in Responses :
          LET classified == ClassifyQuery(query_text, response).val
              intent == classified[1]
              parameters == classified[2]
              processed == ProcessQuery(query_text, current_baby_id, response).val
          IN  /\ processed[2] = intent
              /\ processed[1] = IF intent \in DOMAIN QueryFunctions
                                THEN QueryFunctions[intent] ELSE "unknown"
              /\ \A key \in DOMAIN parameters :
                    key \in DOMAIN processed[3] /\ processed[3][key] = parameters[key]
              /\ DOMAIN processed[3] \subseteq DOMAIN parameters \cup {"baby_id"}
              /\ "baby_id" \notin DOMAIN parameters /\ ~IsNone(current_baby_id) =>
                    /\ "baby_id" \in DOMAIN processed[3]
                    /\ processed[3].baby_id = Val(current_baby_id)
              /\ "baby_id" \notin DOMAIN parameters /\ IsNone(current_baby_id) =>
                    "baby_id" \notin DOMAIN processed[3]

(* the classifier has been asked; for the query "Is she hungry?" with baby 1
   selected, each of the nine intents it may give is mapped to its function,
   an intent it makes up to "unknown", the baby_id 2 it gives is kept and
   baby 1 is added where it gives none *)
C34_Witness ==
    /\ openai.api_key
    /\ Len(openai.calls) > 0
    /\ \A i \in DOMAIN QueryFunctions :
          ProcessQuery(IsSheHungry, Some(1),
                       [raises |-> FALSE, json |-> TRUE,
                        result |-> [intent |-> i, parameters |-> [baby_id |-> 2]]]).val
              = <<QueryFunctions[i], i, [baby_id |-> 2]>>
    /\ ProcessQuery(IsSheHungry, Some(1),
                    [raises |-> FALSE, json |-> TRUE,
                     result |-> [intent |-> "greeting", parameters |-> EmptyDict]]).val
          = <<"unknown", "greeting", [baby_id |-> 1]>>


(* C40: the windows that parse_time_period returns at one instant for
   consecutive periods are adjacent and do not overlap: the end of "last
   week" equals the start of "this week" and the end of "yesterday" equals
   the start of "today", so no instant lies in both windows of a pair. *)
Adjacent(earlier, later) ==
    /\ earlier[2] = later[1]
    /\ \A instant \in earlier[1]..later[2] :
          ~(/\ earlier[1] <= instant /\ instant < earlier[2]
            /\ later[1] <= instant /\ instant < later[2])

C40_AdjacentWindows ==
    /\ Adjacent(ParseTimePeriod("last week"), ParseTimePeriod("this week"))
    /\ Adjacent(ParseTimePeriod("yesterday"), ParseTimePeriod("today"))

(* a Wednesday, a tick past 00:00 of datetime.utcnow(): "last week" ends at
   00:03:20 of Monday, "this week" starts at 00:00 of Monday *)
C40_LastWeekEndsAfterMidnight ==
    /\ weekday(utcnow(now)) = 2
    /\ utcnow(now) - Date(utcnow(now)) = TickSeconds
    /\ ParseTimePeriod("this week")[1] = Date(utcnow(now)) - 2 * 86400
    /\ ParseTimePeriod("last week")[2] = ParseTimePeriod("this week")[1] + TickSeconds
    /\ ParseTimePeriod("yesterday")[2] = ParseTimePeriod("today")[1]


----------------------------------------------------------------------------
(* A store that rejects a statement of a call: the statement raises
   OperationalError and the call takes its except path. *)

Statements == {"commit", "refresh"}

(* start_feeding: a rejected commit is rolled back and raised again; a
   rejected refresh is raised after the commit *)
StartFeedingRejected(b, ft, statement) ==
    IF statement = "commit" \/ ~ForeignKeyOk(b)
    THEN Raise("OperationalError")
    ELSE [err |-> "OperationalError", val |-> None, db |-> StartFeeding(b, ft).db]

(* delete_baby: except Exception: db.rollback(); return False *)
DeleteBabyRejected(b) == Return(FALSE, db)

(* get_recent_events: except Exception: return [] *)
GetRecentEventsRejected(b, limit, days) == Return(<< >>, db)

(* get_last_feeding: except Exception: return {"found": False, "error": str(e)} *)
GetLastFeedingRejected(b) == Return([found |-> FALSE, error |-> "OperationalError"], db)

start_feeding_rejected(b, ft, statement) ==
    /\ TotalRows < MaxRows
    /\ Commit(StartFeedingRejected(b, ft, statement))
    /\ UNCHANGED <<now, sessions, user_data, conversation, openai>>

delete_baby_rejected(b) ==
    /\ Commit(DeleteBabyRejected(b))
    /\ UNCHANGED <<now, sessions, user_data, conversation, openai>>

get_recent_events_rejected(b, limit, days) == UNCHANGED vars

get_last_feeding_rejected(b) == UNCHANGED vars

NextRejected ==
    \/ Next
    \/ \E b \in BabyIds, ft \in FeedingTypes, statement \in Statements :
          start_feeding_rejected(b, ft, statement)
    \/ \E b \in BabyIds : delete_baby_rejected(b)
    \/ \E b \in BabyIds, limit \in Limits, days \in Days :
          get_recent_events_rejected(b, limit, days)
    \/ \E b \in BabyIds : get_last_feeding_rejected(b)

(* the store with calls that it rejects *)
SpecRejected == Init /\ [][NextRejected]_vars

(* C32: when the store rejects a write or a read during an operation, the
   operation leaves no change behind and surfaces the failure to its caller:
   it never returns an empty event list, found = false or False in place of
   the failure. *)
Surfaced(call) == call.err # "" /\ call.db = db

C32_RejectionSurfaced ==
    /\ \A b \in BabyIds, ft \in FeedingTypes, statement \in Statements :
          Surfaced(StartFeedingRejected(b, ft, statement))
    /\ \A b \in BabyIds : Surfaced(DeleteBabyRejected(b))
    /\ \A b \in BabyIds, limit \in Limits, days \in Days :
          Surfaced(GetRecentEventsRejected(b, limit, days))
    /\ \A b \in BabyIds : Surfaced(GetLastFeedingRejected(b))

(* baby 1 has a feeding: its recent events are not empty and its last
   feeding is found, and a rejected query answers [] and found = false; a
   rejected delete_baby answers False as if there were no baby 1 *)
C32_RejectionLooksNormal ==
    /\ 1 \in babies
    /\ Of(feedings, 1) # {}
    /\ \A r \in RecentEvents(1, 2, 1) : r # << >>
    /\ GetRecentEventsRejected(1, 2, 1) = Return(<< >>, db)
    /\ GetLastFeedingRejected(1).val.found = FALSE
    /\ DeleteBaby(1).val = TRUE
    /\ DeleteBabyRejected(1) = Return(FALSE, db)


----------------------------------------------------------------------------
(* The feeding conversation of the front end (src/src/bot.py).  A handler
   is an operator of the state it runs in: the conversation state it
   returns or the exception it raises, the store and the user_data it
   leaves, and the feeding whose end made it ask for an amount.  A text is
   the sequence of its characters. *)

BotReturn(state, d, ud, ended) ==
    [err |-> "", state |-> state, db |-> d, user_data |-> ud, ended |-> ended]

(* a handler that raises: the ConversationHandler keeps its state *)
BotRaise(e) ==
    [err |-> e, state |-> conversation.state, db |-> db, user_data |-> user_data,
     ended |-> conversation.ended]

(* context.user_data.get(key) *)
Get(ud, key) == IF key \in DOMAIN ud THEN Some(ud[key]) ELSE None

(* a or b, of ids: an id is not 0 *)
Or(a, b) == IF ~IsNone(a) THEN a ELSE b

(* context.user_data[key] = value *)
Set(ud, key, v) == (key :> v) @@ ud

Digit ==
    ("0" :> 0) @@ ("1" :> 1) @@ ("2" :> 2) @@ ("3" :> 3) @@ ("4" :> 4)
        @@ ("5" :> 5) @@ ("6" :> 6) @@ ("7" :> 7) @@ ("8" :> 8) @@ ("9" :> 9)

RECURSIVE Decimal(_)
Decimal(digits) ==
    IF digits = << >> THEN 0
    ELSE 10 * Decimal(SubSeq(digits, 1, Len(digits) - 1)) + Digit[digits[Len(digits)]]

(* float(text) of a whole number with or without a sign; None for a
   ValueError *)
float(text) ==
    LET signed == text # << >> /\ text[1] \in {"-", "+"}
        digits == IF signed THEN Tail(text) ELSE text
    IN  IF digits # << >> /\ \A i \in 1..Len(digits) : digits[i] \in DOMAIN Digit
        THEN Some(IF signed /\ text[1] = "-" THEN 0 - Decimal(digits) ELSE Decimal(digits))
        ELSE None

(* the texts sent as an amount *)
AmountTexts == {<<"5">>, <<"-", "5">>, <<"a">>}

(* start: a user without babies is asked for a name *)
Start == IF babies = {} THEN "ADD_BABY" ELSE "SELECT_BABY"

MenuCommand == IF "baby_id" \notin DOMAIN user_data THEN Start ELSE "MAIN_MENU"

AddBabyName(name) ==
    LET call == CreateBaby(name)
    IN  BotReturn("MAIN_MENU", call.db, Set(user_data, "baby_id", Val(call.val).id), None)

MainMenu(action) ==
    IF action = "feeding"
    THEN BotReturn("FEEDING_TYPE", db, user_data, None)
    ELSE BotReturn("MAIN_MENU", db, user_data, None)

FeedingTypeSelection(feeding_type) ==
    LET call == StartFeeding(user_data["baby_id"], feeding_type)
    IN  IF call.err # "" THEN BotRaise(call.err)
        ELSE BotReturn("FEEDING", call.db,
                       Set(user_data, "feeding_id", Val(call.val).id), None)

QuickBottleCommand ==
    IF "baby_id" \notin DOMAIN user_data \/ user_data["baby_id"] \notin babies
    THEN BotReturn(Start, db, user_data, None)
    ELSE LET call == StartFeeding(user_data["baby_id"], "BOTTLE")
         IN  IF call.err # "" THEN BotReturn(MenuCommand, db, user_data, None)
             ELSE BotReturn("FEEDING", call.db,
                            Set(user_data, "current_feeding_id", Val(call.val).id), None)

(* feeding = end_feeding(db, feeding_id) and what follows it in
   feeding_action and in done_command *)
EndAndAsk(feeding_id) ==
    LET call == EndFeeding(feeding_id, None)
    IN  IF IsNone(call.val) THEN BotRaise("AttributeError")
        ELSE LET feeding == Val(call.val).row
             IN  IF feeding.type = "BOTTLE"
                       /\ (IsNone(feeding.amount) \/ feeding.amount = Some(0))
                 THEN BotReturn("FEEDING_AMOUNT", call.db, user_data, Some(feeding_id))
                 ELSE BotReturn("MAIN_MENU", call.db, user_data, None)

FeedingAction(data) ==
    IF data = "add_amount"
    THEN BotReturn("FEEDING_AMOUNT", db, user_data, None)
    ELSE IF data \in {"end_feeding", "done_feeding"}
    THEN LET feeding_id == Or(Get(user_data, "feeding_id"), Get(user_data, "current_feeding_id"))
         IN  IF IsNone(feeding_id)
             THEN BotReturn("MAIN_MENU", db, user_data, None)
             ELSE EndAndAsk(Val(feeding_id))
    ELSE IF data = "back_to_menu"
    THEN BotReturn("MAIN_MENU", db, user_data, None)
    ELSE BotReturn("FEEDING", db, user_data, None)

DoneCommand ==
    IF "current_feeding_id" \notin DOMAIN user_data /\ "feeding_id" \notin DOMAIN user_data
    THEN BotReturn(MenuCommand, db, user_data, None)
    ELSE EndAndAsk(Val(Or(Get(user_data, "current_feeding_id"), Get(user_data, "feeding_id"))))

(* feeding_amount, the handler of the text sent in FEEDING_AMOUNT *)
FeedingAmountText(text) ==
    LET amount == float(text)
    IN  IF IsNone(amount)
        THEN BotReturn("FEEDING_AMOUNT", db, user_data, conversation.ended)
        ELSE IF "feeding_id" \notin DOMAIN user_data
        THEN BotRaise("KeyError")
        ELSE BotReturn("FEEDING", FeedingAmount(user_data["feeding_id"], Val(amount)).db,
                       user_data, None)

(* the handler's session is committed and the ConversationHandler takes the
   state it returned *)
Handle(call) ==
    /\ Commit(call)
    /\ user_data' = call.user_data
    /\ conversation' = [state |-> call.state, ended |-> call.ended]
    /\ UNCHANGED <<now, sessions, openai>>

add_baby_name(name) ==
    /\ conversation.state = "ADD_BABY"
    /\ NextId(babies) \in BabyIds
    /\ Handle(AddBabyName(name))

main_menu(action) ==
    /\ conversation.state = "MAIN_MENU"
    /\ Handle(MainMenu(action))

feeding_type_selection(feeding_type) ==
    /\ conversation.state = "FEEDING_TYPE"
    /\ TotalRows < MaxRows
    /\ Handle(FeedingTypeSelection(feeding_type))

(* an entry point and a fallback: the command is handled in every state *)
quick_bottle_command ==
    /\ TotalRows < MaxRows
    /\ Handle(QuickBottleCommand)

feeding_action(data) ==
    /\ conversation.state = "FEEDING"
    /\ Handle(FeedingAction(data))

(* an entry point and a fallback: the command is handled in every state *)
done_command ==
    /\ Commit(DoneCommand)
    /\ user_data' = DoneCommand.user_data
    /\ conversation' = [state |-> DoneCommand.state, ended |-> DoneCommand.ended]
    /\ UNCHANGED <<now, sessions, openai>>

feeding_amount_text(text) ==
    /\ conversation.state = "FEEDING_AMOUNT"
    /\ Handle(FeedingAmountText(text))

(* /start of a user without babies: the front end asks for a name *)
InitBot ==
    /\ babies = {}
    /\ feedings = << >>
    /\ sleeps = << >>
    /\ diapers = << >>
    /\ cryings = << >>
    /\ now = 0
    /\ sessions = NoSessions
    /\ user_data = NoUserData
    /\ conversation = [state |-> "ADD_BABY", ended |-> None]
    /\ openai = NoOpenai

NextBot ==
    \/ Tick
    \/ \E name \in BabyNames \ {<< >>} : add_baby_name(name)
    \/ \E action \in {"feeding"} : main_menu(action)
    \/ \E feeding_type \in FeedingTypes : feeding_type_selection(feeding_type)
    \/ quick_bottle_command
    \/ \E data \in {"add_amount", "end_feeding", "done_feeding", "back_to_menu"} :
          feeding_action(data)
    \/ done_command
    \/ \E text \in AmountTexts : feeding_amount_text(text)

SpecBot == InitBot /\ [][NextBot]_vars


(* C31: malformed input is rejected with ValidationError before anything is
   written: a negative feeding amount is never stored on a feeding record,
   an empty baby name never creates a baby, and the store is unchanged after
   the rejection. *)
Rejected(call) == call.err = "ValidationError" /\ call.db = db

C31_MalformedRejected ==
    /\ \A id \in DOMAIN feedings : Rejected(EndFeeding(id, Some(0 - 5)))
    /\ Rejected(CreateBaby(<< >>))
    /\ conversation.state = "FEEDING_AMOUNT" =>
          \A text \in AmountTexts :
              ~IsNone(float(text)) /\ Val(float(text)) < 0 => Rejected(FeedingAmountText(text))
    /\ \A id \in DOMAIN feedings :
          ~IsNone(feedings[id].amount) => Val(feedings[id].amount) >= 0

(* the text "-5" was sent as the amount of feeding 1 and is stored on it;
   end_feeding would store -5 on feeding 2, which is in progress, and
   create_baby would add a baby for the empty name *)
C31_NegativeAmountStored ==
    /\ DOMAIN feedings = {1, 2}
    /\ feedings[1].amount = Some(0 - 5)
    /\ Open(feedings[2])
    /\ EndFeeding(2, Some(0 - 5)).err = ""
    /\ EndFeeding(2, Some(0 - 5)).db.feedings[2].amount = Some(0 - 5)
    /\ CreateBaby(<< >>).err = ""
    /\ CreateBaby(<< >>).db.babies = babies \cup {2}

(* C39: whenever the front end asks for a bottle amount after ending a
   feeding, by the End / Done button or by /done, the amount entered next is
   stored on exactly the feeding that was just ended, whichever path started
   that feeding and whichever ids user_data still holds. *)
C39_AmountOnEndedFeeding ==
    conversation.state = "FEEDING_AMOUNT" /\ ~IsNone(conversation.ended) =>
        \A text \in AmountTexts :
            ~IsNone(float(text)) /\ Val(float(text)) >= 0 =>
                LET call == FeedingAmountText(text)
                IN  /\ call.err = ""
                    /\ call.db = [db EXCEPT !.feedings[Val(conversation.ended)].amount
                                               = float(text)]

(* feeding 1 was started from the menu and has ended, feeding 2 was started
   by /quick_bottle and ended by /done, which asked for its amount: the
   amount 5 sent next is stored on feeding 1 *)
C39_AmountOnOtherFeeding ==
    /\ conversation = [state |-> "FEEDING_AMOUNT", ended |-> Some(2)]
    /\ Get(user_data, "feeding_id") = Some(1)
    /\ Get(user_data, "current_feeding_id") = Some(2)
    /\ Closed(feedings[1]) /\ Closed(feedings[2])
    /\ FeedingAmountText(<<"5">>).db.feedings[1].amount = Some(5)
    /\ FeedingAmountText(<<"5">>).db.feedings[2].amount = None

=============================================================================
